---- MODULE Spec2Model ----
(***************************************************************************)
(* Model of the navigation subsystem of PACTDrivingAssistantBK27           *)
(* (src/assistance/navigation.py): the junction graph and its Dijkstra     *)
(* search, the map load, the map matcher and the per-tick route resolver   *)
(* NavigationSystem.process.                                               *)
(*                                                                         *)
(* Numbers.  The program computes with Python floats.  The model uses      *)
(* integer coordinates; a distance d is carried as its square, and where   *)
(* the square is not an integer (projection onto a slanted segment) as a   *)
(* reduced fraction <<n, d>>.  A comparison dist < c of the program is     *)
(* the comparison dist^2 < c^2 of the model (sqrt is monotone and exact on *)
(* perfect squares).  Road lengths are integer square roots; the networks  *)
(* of the model only have segments of integer length.                      *)
(*                                                                         *)
(* Indices.  Junction indices are the program's (0-based).  A polyline is  *)
(* a TLA+ sequence, so Python's path[i] is path[i + 1] here.               *)
(***************************************************************************)
EXTENDS Integers, Sequences, FiniteSets, TLC

VARIABLES
    enabled,                  \* AssistanceSystem.enabled
    sat_nav_enabled,          \* settings value 'sat_nav_enabled'
    track_file,               \* what track_data/track_data_BL.json holds
    map_loaded,               \* NavigationSystem.map_loaded
    roads_raw,                \* road_id -> [road_id, path, length]
    junctions_raw,            \* junction index -> [location, connected_roads]
    adjacency,                \* NavigationGraph.adjacency
    junction_locations,       \* NavigationGraph.junction_locations
    destination_junction_idx,
    current_route_junctions,
    current_route_roads,
    last_known_road_id,
    next_maneuver_emitted,
    last,                     \* observation of the latest call of process
    harness                   \* bookkeeping of the test harnesses (drive, graph)

vars == <<enabled, sat_nav_enabled, track_file, map_loaded, roads_raw,
          junctions_raw, adjacency, junction_locations,
          destination_junction_idx, current_route_junctions,
          current_route_roads, last_known_road_id, next_maneuver_emitted,
          last, harness>>

\* Python's None where the program holds a road id
None == -1

NoStatus == "none"

(***************************************************************************)
(* Configuration constants of the program.                                 *)
(***************************************************************************)
NOTIFICATION_DISTANCE == 150
OFF_ROUTE_TOLERANCE == 50
ARRIVAL_DISTANCE == 50
LOOK_BACK == 5
GAME_UNITS_PER_METER == 65536
DEFAULT_DESTINATION == 1

(***************************************************************************)
(* Small arithmetic helpers.                                               *)
(***************************************************************************)
Abs(n) == IF n < 0 THEN -n ELSE n

Min2(a, b) == IF a < b THEN a ELSE b

Max2(a, b) == IF a > b THEN a ELSE b

RECURSIVE GCD(_, _)
GCD(a, b) == IF b = 0 THEN a ELSE GCD(b, a % b)

\* floor of the square root (int(math.sqrt(n)) for the n of the model)
ISqrt(n) == CHOOSE r \in 0..n : r * r <= n /\ (r + 1) * (r + 1) > n

\* fractions <<numerator, denominator>>; Inf stands for float('inf')
Inf == <<1, 0>>

Rat(n, d) ==
    IF d # 0 /\ n % d = 0 THEN <<n \div d, 1>>
    ELSE LET g == GCD(n, d) IN IF g = 0 THEN <<0, 1>> ELSE <<n \div g, d \div g>>

RatLess(a, b) == a[1] * b[2] < b[1] * a[2]

(***************************************************************************)
(* Vector3                                                                 *)
(***************************************************************************)
Sub(a, b) == <<a[1] - b[1], a[2] - b[2], a[3] - b[3]>>

DistanceSq(a, b) ==
    (a[1] - b[1]) * (a[1] - b[1]) + (a[2] - b[2]) * (a[2] - b[2])
        + (a[3] - b[3]) * (a[3] - b[3])

\* math.sqrt of the squared distance, for segments of integer length
Distance(a, b) == ISqrt(DistanceSq(a, b))

Dot(a, b) == a[1] * b[1] + a[2] * b[2] + a[3] * b[3]

\* a[0] * b[1] - a[1] * b[0] of the program (0-based components)
CrossY(a, b) == a[1] * b[2] - a[2] * b[1]

\* the squared distance from p to c = a + t * ab (lines 322-329), given
\* ap_sq = |ap|^2, ab_sq = |ab|^2 > 0 and d = ap . ab, so that t is d / ab_sq
\* clamped to [0, 1]: |ap|^2 for t = 0, |ap - ab|^2 for t = 1, and
\* |ap|^2 - d^2 / ab_sq in between
ClampedDistSq(ap_sq, ab_sq, d) ==
    IF d <= 0 THEN <<ap_sq, 1>>
    ELSE IF d >= ab_sq THEN <<ap_sq - 2 * d + ab_sq, 1>>
    ELSE Rat(ap_sq * ab_sq - d * d, ab_sq)

(***************************************************************************)
(* NavigationGraph                                                         *)
(***************************************************************************)
EmptyMap == [x \in {} |-> 0]

\* d with d[k] = v (Python: d[k] = v)
Put(d, k, v) == [x \in DOMAIN d \cup {k} |-> IF x = k THEN v ELSE d[x]]

AddJunctionAdj(adj, index) ==
    IF index \in DOMAIN adj THEN adj ELSE Put(adj, index, EmptyMap)

AddRoadConnectionOneWay(adj, j_from, j_to, road_id, length) ==
    Put(adj, j_from, Put(adj[j_from], j_to, [road_id |-> road_id, length |-> length]))

\* lines 58-62
AddRoadConnection(adj, j_from, j_to, road_id, length) ==
    LET a1 == Put(adj, j_from,
                  Put(adj[j_from], j_to, [road_id |-> road_id, length |-> length]))
    IN  Put(a1, j_to,
            Put(a1[j_to], j_from, [road_id |-> road_id, length |-> length]))

\* Python's order on lists of integers
RECURSIVE ListLess(_, _)
ListLess(p, q) ==
    IF p = <<>> THEN q # <<>>
    ELSE IF q = <<>> THEN FALSE
    ELSE IF Head(p) # Head(q) THEN Head(p) < Head(q)
    ELSE ListLess(Tail(p), Tail(q))

\* Python's order on the heap entries (cost, node, path)
EntryLess(e, f) ==
    \/ e[1] < f[1]
    \/ e[1] = f[1] /\ e[2] < f[2]
    \/ e[1] = f[1] /\ e[2] = f[2] /\ ListLess(e[3], f[3])

\* the entry of the least node index, whatever its cost
HeapPopByNode(queue) ==
    CHOOSE e \in queue : \A f \in queue \ {e} :
        \/ e[2] < f[2]
        \/ e[2] = f[2] /\ EntryLess(e, f)

\* heapq.heappop: the least entry of the queue
HeapPop(queue) == CHOOSE e \in queue : \A f \in queue \ {e} : EntryLess(e, f)

MinDistGetDefaultZero(min_dist, v) ==
    IF v \in DOMAIN min_dist THEN <<min_dist[v], 1>> ELSE <<0, 1>>

\* line 107: min_dist.get(v, float('inf'))
MinDistGet(min_dist, v) == IF v \in DOMAIN min_dist THEN <<min_dist[v], 1>> ELSE Inf

\* line 109: the neighbour is queued when the new cost is strictly smaller
Relaxed(new_cost, old_cost) == RatLess(<<new_cost, 1>>, old_cost)

\* the neighbours of u that the for loop of lines 101-111 pushes
Pushed(adj, u, cost, visited, min_dist) ==
    {v \in DOMAIN adj[u] :
        /\ v \notin visited
        /\ Relaxed(cost + adj[u][v].length, MinDistGet(min_dist, v))}

\* a test that takes no node for visited
SeenNever(u, visited) == FALSE

\* line 84: u in visited
Seen(u, visited) == u \in visited

\* lines 77-111: the while loop; iteration counts its passes as the
\* variable of that name does, expanded lists the nodes whose
\* neighbours were relaxed
RECURSIVE DijkstraLoop(_, _, _, _, _, _, _)
DijkstraLoop(adj, end_junction, queue, visited, min_dist, expanded, iteration) ==
    IF queue = {}
    THEN [path |-> <<>>, expanded |-> expanded, iteration |-> iteration]
    ELSE
      LET e == HeapPop(queue)
          cost == e[1]
          u == e[2]
          rest == queue \ {e}
      IN
      IF Seen(u, visited)
      THEN DijkstraLoop(adj, end_junction, rest, visited, min_dist, expanded,
                        iteration + 1)
      ELSE
        LET visited1 == visited \cup {u}
            path == Append(e[3], u)
        IN
        IF u = end_junction
        THEN [path |-> path, expanded |-> expanded, iteration |-> iteration + 1]
        ELSE IF u \in DOMAIN adj
        THEN
          LET push == Pushed(adj, u, cost, visited1, min_dist)
              min_dist1 == [v \in DOMAIN min_dist \cup push |->
                               IF v \in push THEN cost + adj[u][v].length
                               ELSE min_dist[v]]
              queue1 == rest \cup {<<cost + adj[u][v].length, v, path>> : v \in push}
          IN DijkstraLoop(adj, end_junction, queue1, visited1, min_dist1,
                          Append(expanded, u), iteration + 1)
        ELSE DijkstraLoop(adj, end_junction, rest, visited1, min_dist,
                          Append(expanded, u), iteration + 1)

DijkstraRun(adj, start_junction, end_junction) ==
    DijkstraLoop(adj, end_junction, {<<0, start_junction, <<>> >>}, {},
                 Put(EmptyMap, start_junction, 0), <<>>, 0)

DijkstraOrStart(adj, start_junction, end_junction) ==
    IF DijkstraRun(adj, start_junction, end_junction).path = <<>>
    THEN <<start_junction>>
    ELSE DijkstraRun(adj, start_junction, end_junction).path

Dijkstra(adj, start_junction, end_junction) ==
    DijkstraRun(adj, start_junction, end_junction).path

(***************************************************************************)
(* Track files.  A track file is the JSON document of                      *)
(* track_data/track_data_BL.json: roads (road_id, path) and junctions      *)
(* (location, connected_roads).  "missing" and "corrupt" stand for a file  *)
(* that does not exist and one that json.load rejects.                     *)
(***************************************************************************)
\* two roads in a line: J0 -10- J1 -11- J2
LineTrack ==
    [roads |-> <<
        [road_id |-> 10, path |-> << <<0,0,0>>, <<100,0,0>>, <<200,0,0>> >>],
        [road_id |-> 11, path |-> << <<200,0,0>>, <<300,0,0>>, <<400,0,0>> >>] >>,
     junctions |-> <<
        [location |-> <<0,0,0>>, connected_roads |-> <<10>>],
        [location |-> <<200,0,0>>, connected_roads |-> <<10, 11>>],
        [location |-> <<400,0,0>>, connected_roads |-> <<11>>] >>]

\* a T junction J1 of roads 20, 21 and 22, a further leg 24 from J2 to J4,
\* a dead-end road 23 whose only junction is J5, and a road 25 that no
\* junction lists
TeeTrack ==
    [roads |-> <<
        [road_id |-> 20, path |-> << <<0,0,0>>, <<100,0,0>>, <<200,0,0>> >>],
        [road_id |-> 21, path |-> << <<200,0,0>>, <<300,0,0>>, <<400,0,0>> >>],
        [road_id |-> 22, path |-> << <<200,0,0>>, <<200,100,0>>, <<200,200,0>> >>],
        [road_id |-> 23, path |-> << <<0,200,0>>, <<50,200,0>> >>],
        [road_id |-> 24, path |-> << <<400,0,0>>, <<400,100,0>>, <<400,200,0>> >>],
        [road_id |-> 25, path |-> << <<0,-200,0>>, <<50,-200,0>> >>] >>,
     junctions |-> <<
        [location |-> <<0,0,0>>, connected_roads |-> <<20>>],
        [location |-> <<200,0,0>>, connected_roads |-> <<20, 21, 22>>],
        [location |-> <<400,0,0>>, connected_roads |-> <<21, 24>>],
        [location |-> <<200,200,0>>, connected_roads |-> <<22>>],
        [location |-> <<400,200,0>>, connected_roads |-> <<24>>],
        [location |-> <<0,200,0>>, connected_roads |-> <<23>>] >>]

\* a road of a single point (no segment) and one junction
BareTrack ==
    [roads |-> << [road_id |-> 30, path |-> << <<0,0,0>> >>] >>,
     junctions |-> << [location |-> <<0,0,0>>, connected_roads |-> <<30>>] >>]

TrackFiles == {"missing", "corrupt", "line", "tee", "bare"}

\* one straight road 40 of length 100 along x, as a polyline of the given
\* points, and one junction at each location of at, listed in that order;
\* every junction lists the road
RoadWithJunctions(path, at) ==
    [roads |-> << [road_id |-> 40, path |-> path] >>,
     junctions |-> [i \in 1..Len(at) |-> [location |-> at[i], connected_roads |-> <<40>>]]]

OnePiece == << <<0,0,0>>, <<100,0,0>> >>

TwoPieces == << <<0,0,0>>, <<50,0,0>>, <<100,0,0>> >>

\* a road that turns left at (100,0,0), of length 200
Bend == << <<0,0,0>>, <<100,0,0>>, <<100,100,0>> >>

\* the junctions of road 40 in the order in which the file lists them
MultiJunctionTracks ==
    [straight_a |-> RoadWithJunctions(OnePiece,
                        << <<0,0,0>>, <<30,0,0>>, <<70,0,0>>, <<100,0,0>> >>),
     straight_b |-> RoadWithJunctions(OnePiece,
                        << <<100,0,0>>, <<70,0,0>>, <<30,0,0>>, <<0,0,0>> >>),
     straight_c |-> RoadWithJunctions(OnePiece,
                        << <<70,0,0>>, <<0,0,0>>, <<100,0,0>>, <<30,0,0>> >>),
     straight_d |-> RoadWithJunctions(OnePiece,
                        << <<100,0,0>>, <<30,0,0>>, <<0,0,0>>, <<70,0,0>> >>),
     straight_e |-> RoadWithJunctions(TwoPieces,
                        << <<70,0,0>>, <<100,0,0>>, <<30,0,0>> >>),
     straight_f |-> RoadWithJunctions(TwoPieces,
                        << <<70,5,0>>, <<50,0,0>>, <<30,-5,0>>, <<0,0,0>> >>),
     straight_g |-> RoadWithJunctions(OnePiece,
                        << <<30,0,0>>, <<70,0,0>> >>),
     bend_a |-> RoadWithJunctions(Bend,
                        << <<100,60,0>>, <<0,0,0>>, <<100,100,0>>, <<40,0,0>> >>),
     bend_b |-> RoadWithJunctions(Bend,
                        << <<100,100,0>>, <<100,0,0>>, <<40,10,0>>, <<110,60,0>>,
                           <<0,0,0>> >>)]

\* roads 50 (length 100) and 51 (length 160) both join J0 and J1; road 52
\* leads on to J2
TwinTrack ==
    [roads |-> <<
        [road_id |-> 50, path |-> << <<0,0,0>>, <<100,0,0>> >>],
        [road_id |-> 51, path |-> << <<0,0,0>>, <<0,30,0>>, <<100,30,0>>, <<100,0,0>> >>],
        [road_id |-> 52, path |-> << <<100,0,0>>, <<200,0,0>> >>] >>,
     junctions |-> <<
        [location |-> <<0,0,0>>, connected_roads |-> <<50, 51>>],
        [location |-> <<100,0,0>>, connected_roads |-> <<50, 51, 52>>],
        [location |-> <<200,0,0>>, connected_roads |-> <<52>>] >>]

\* the line track with a dead-end road 12 that only junction 0 lists
SpurTrack ==
    [roads |-> LineTrack.roads \o
                 << [road_id |-> 12, path |-> << <<0,0,0>>, <<0,-100,0>> >>] >>,
     junctions |-> << [location |-> <<0,0,0>>, connected_roads |-> <<10, 12>>],
                      LineTrack.junctions[2], LineTrack.junctions[3] >>]

\* the line track with one key left out or one road id misspelt
MalformedTracks ==
    [no_path |->
        [roads |-> << LineTrack.roads[1], [road_id |-> 11] >>,
         junctions |-> LineTrack.junctions],
     no_road_id |->
        [roads |-> << LineTrack.roads[1], [path |-> LineTrack.roads[2].path] >>,
         junctions |-> LineTrack.junctions],
     no_location |->
        [roads |-> LineTrack.roads,
         junctions |-> << LineTrack.junctions[1], [connected_roads |-> <<10, 11>>],
                          LineTrack.junctions[3] >>],
     no_connected_roads |->
        [roads |-> LineTrack.roads,
         junctions |-> << LineTrack.junctions[1], [location |-> <<200,0,0>>],
                          LineTrack.junctions[3] >>],
     unknown_road |->
        [roads |-> LineTrack.roads,
         junctions |-> << LineTrack.junctions[1],
                          [location |-> <<200,0,0>>, connected_roads |-> <<10, 12>>],
                          [location |-> <<400,0,0>>, connected_roads |-> <<12>>] >>],
     unknown_dead_end |->
        [roads |-> LineTrack.roads,
         junctions |-> << LineTrack.junctions[1], LineTrack.junctions[2],
                          [location |-> <<400,0,0>>, connected_roads |-> <<11, 12>>] >>],
     no_roads |-> [junctions |-> LineTrack.junctions]]

TrackData(f) ==
    IF f = "line" THEN LineTrack
    ELSE IF f = "tee" THEN TeeTrack
    ELSE IF f = "twin" THEN TwinTrack
    ELSE IF f = "spur" THEN SpurTrack
    ELSE IF f \in DOMAIN MultiJunctionTracks THEN MultiJunctionTracks[f]
    ELSE IF f \in DOMAIN MalformedTracks THEN MalformedTracks[f]
    ELSE BareTrack

\* os.path.exists and json.load succeed (lines 166-175)
Readable(f) == f \notin {"missing", "corrupt"}

(***************************************************************************)
(* _load_map_data                                                          *)
(***************************************************************************)
\* lines 181-184: the sum of the distances of consecutive points
RECURSIVE PathLengthUpTo(_, _)
PathLengthUpTo(pts, n) ==
    IF n <= 0 THEN 0
    ELSE PathLengthUpTo(pts, n - 1) + Distance(pts[n], pts[n + 1])

PathLength(pts) == PathLengthUpTo(pts, Len(pts) - 1)

HasRoad(roads, id) == \E i \in 1..Len(roads) : roads[i].road_id = id

RoadIndex(roads, id) == CHOOSE i \in 1..Len(roads) : roads[i].road_id = id

Road(roads, id) == roads[RoadIndex(roads, id)]

\* lines 179-187: roads_raw[r['road_id']] = r, in insertion order
RECURSIVE StoreRoads(_, _, _)
StoreRoads(list, n, acc) ==
    IF n > Len(list) THEN acc
    ELSE LET r == [road_id |-> list[n].road_id, path |-> list[n].path,
                   length |-> PathLength(list[n].path)]
         IN StoreRoads(list, n + 1,
                IF HasRoad(acc, r.road_id)
                THEN [acc EXCEPT ![RoadIndex(acc, r.road_id)] = r]
                ELSE Append(acc, r))

\* the junction list as the program indexes it, from 0
JunctionsRaw(list) == [j \in 0..(Len(list) - 1) |-> list[j + 1]]

\* lines 190-191
RECURSIVE AddJunctions(_, _, _)
AddJunctions(adj, n, count) ==
    IF n >= count THEN adj ELSE AddJunctions(AddJunctionAdj(adj, n), n + 1, count)

\* lines 195-201: road_id -> junction indices, roads in order of first mention
RECURSIVE RoadToJunctionsFrom(_, _, _, _)
RoadToJunctionsFrom(jr, j, k, acc) ==
    IF j \notin DOMAIN jr THEN acc
    ELSE IF k > Len(jr[j].connected_roads) THEN RoadToJunctionsFrom(jr, j + 1, 1, acc)
    ELSE LET r == jr[j].connected_roads[k]
             known == \E i \in 1..Len(acc) : acc[i][1] = r
             at == CHOOSE i \in 1..Len(acc) : acc[i][1] = r
         IN RoadToJunctionsFrom(jr, j, k + 1,
                IF known THEN [acc EXCEPT ![at] = <<r, Append(acc[at][2], j)>>]
                ELSE Append(acc, <<r, <<j>> >>))

RoadToJunctions(jr) == RoadToJunctionsFrom(jr, 0, 1, <<>>)

\* lines 223-242: the segment (0-based) and clamped projection t = num/den
\* of the junction on the polyline, the nearest segment winning, the first
\* among equals; segments of length 0 are skipped
ClampedT(ab_sq, d) == Max2(0, Min2(ab_sq, d))

ProjectionOn(j_loc, p1, p2) ==
    [t_num |-> ClampedT(DistanceSq(p2, p1), Dot(Sub(j_loc, p1), Sub(p2, p1))),
     t_den |-> DistanceSq(p2, p1),
     dist |-> ClampedDistSq(DistanceSq(j_loc, p1), DistanceSq(p2, p1),
                            Dot(Sub(j_loc, p1), Sub(p2, p1)))]

RECURSIVE BestProjection(_, _, _, _)
BestProjection(j_loc, road_path, i, best) ==
    IF i > Len(road_path) - 1 THEN best
    ELSE LET p1 == road_path[i]
             p2 == road_path[i + 1]
             pr == ProjectionOn(j_loc, p1, p2)
         IN IF DistanceSq(p1, p2) > 0 /\ RatLess(pr.dist, best.min_dist)
            THEN BestProjection(j_loc, road_path, i + 1,
                     [min_dist |-> pr.dist, best_segment_idx |-> i - 1,
                      t_num |-> pr.t_num, t_den |-> pr.t_den])
            ELSE BestProjection(j_loc, road_path, i + 1, best)

\* lines 244-253: distance along the polyline up to the projection
DistAlongPath(j_loc, road_path) ==
    LET b == BestProjection(j_loc, road_path, 1,
                 [min_dist |-> Inf, best_segment_idx |-> 0, t_num |-> 0, t_den |-> 1])
        seg == b.best_segment_idx
    IN  PathLengthUpTo(road_path, seg)
          + (IF seg < Len(road_path) - 1
             THEN (b.t_num * Distance(road_path[seg + 1], road_path[seg + 2])) \div b.t_den
             ELSE 0)

\* the list left in the order of the file
KeepListOrder(list, n, acc) == list

\* line 258: list.sort(key = distance along the path), a stable sort
RECURSIVE InsertSorted(_, _)
InsertSorted(sorted, x) ==
    IF sorted = <<>> THEN <<x>>
    ELSE IF x[2] < Head(sorted)[2] THEN <<x>> \o sorted
    ELSE <<Head(sorted)>> \o InsertSorted(Tail(sorted), x)

RECURSIVE SortByPosition(_, _, _)
SortByPosition(list, n, acc) ==
    IF n > Len(list) THEN acc
    ELSE SortByPosition(list, n + 1, InsertSorted(acc, list[n]))

JunctionPositions(jr, j_indices, road_path) ==
    SortByPosition(
        [i \in 1..Len(j_indices) |->
            <<j_indices[i], DistAlongPath(jr[j_indices[i]].location, road_path)>>],
        1, <<>>)

\* every junction connected to the first one along the road
RECURSIVE ConnectToFirst(_, _, _, _)
ConnectToFirst(adj, positions, i, r_id) ==
    IF i > Len(positions) - 1 THEN adj
    ELSE ConnectToFirst(
            AddRoadConnection(adj, positions[1][1], positions[i + 1][1], r_id,
                              Abs(positions[i + 1][2] - positions[1][2])),
            positions, i + 1, r_id)

\* lines 261-270: connect the junctions adjacent along the road
RECURSIVE ConnectAdjacent(_, _, _, _)
ConnectAdjacent(adj, positions, i, r_id) ==
    IF i > Len(positions) - 1 THEN adj
    ELSE ConnectAdjacent(
            AddRoadConnection(adj, positions[i][1], positions[i + 1][1], r_id,
                              Abs(positions[i + 1][2] - positions[i][2])),
            positions, i + 1, r_id)

\* the edges of one road, a road that one junction lists being given an
\* edge from that junction to itself
RoadEdgesWithDeadEnds(adj, roads, jr, r_id, j_indices) ==
    IF Len(j_indices) = 1
    THEN AddRoadConnection(adj, j_indices[1], j_indices[1], r_id, 0)
    ELSE IF Len(j_indices) = 2
    THEN AddRoadConnection(adj, j_indices[1], j_indices[2], r_id, Road(roads, r_id).length)
    ELSE ConnectAdjacent(adj, JunctionPositions(jr, j_indices, Road(roads, r_id).path),
                         1, r_id)

\* lines 203-272: the edges of one road
RoadEdges(adj, roads, jr, r_id, j_indices) ==
    IF Len(j_indices) = 2
    THEN AddRoadConnection(adj, j_indices[1], j_indices[2], r_id, Road(roads, r_id).length)
    ELSE IF Len(j_indices) > 2
    THEN ConnectAdjacent(adj, JunctionPositions(jr, j_indices, Road(roads, r_id).path),
                         1, r_id)
    ELSE adj

RECURSIVE BuildEdges(_, _, _, _, _)
BuildEdges(adj, roads, jr, rtj, n) ==
    IF n > Len(rtj) THEN adj
    ELSE BuildEdges(RoadEdges(adj, roads, jr, rtj[n][1], rtj[n][2]),
                    roads, jr, rtj, n + 1)

\* data.get(key, []) of lines 178-179
Get(data, key) == IF key \in DOMAIN data THEN data[key] ELSE <<>>

\* the first entry of the list on which a lookup of one of the keys raises
\* KeyError, 0 when there is none
FirstWithout(list, keys) ==
    IF \E n \in 1..Len(list) : ~(keys \subseteq DOMAIN list[n])
    THEN CHOOSE n \in 1..Len(list) :
            /\ ~(keys \subseteq DOMAIN list[n])
            /\ \A k \in 1..(n - 1) : keys \subseteq DOMAIN list[k]
    ELSE 0

\* lines 203-211: the first road of road_to_junctions that two or more
\* junctions list and roads_raw does not hold, 0 when there is none
FirstUnknownRoad(rtj, roads) ==
    LET unknown(n) == Len(rtj[n][2]) >= 2 /\ ~HasRoad(roads, rtj[n][1])
    IN  IF \E n \in 1..Len(rtj) : unknown(n)
        THEN CHOOSE n \in 1..Len(rtj) : unknown(n) /\ \A k \in 1..(n - 1) : ~unknown(k)
        ELSE 0

\* the entries of the list before entry bad, all of them when bad is 0
Before(list, bad) == IF bad = 0 THEN list ELSE SubSeq(list, 1, bad - 1)

\* line 54, for the junctions 0 .. count - 1
RECURSIVE AddLocations(_, _, _, _)
AddLocations(locs, jr, n, count) ==
    IF n >= count THEN locs
    ELSE AddLocations(Put(locs, n, jr[n].location), jr, n + 1, count)

\* the state _load_map_data leaves for a file that json.load accepts: the
\* tables as far as the load got onto what the object held before, and
\* map_loaded, which is left False when a lookup raised KeyError
LoadMapData(data) ==
    LET road_list == Get(data, "roads")
        junction_list == Get(data, "junctions")
        jr == JunctionsRaw(junction_list)
        bad_road == FirstWithout(road_list, {"path", "road_id"})
        roads == StoreRoads(Before(road_list, bad_road), 1, roads_raw)
        bad_location == FirstWithout(junction_list, {"location"})
        count == IF bad_road # 0 THEN 0 ELSE Len(Before(junction_list, bad_location))
        nodes == AddJunctions(adjacency, 0, count)
        edges_reached ==
            /\ bad_road = 0
            /\ bad_location = 0
            /\ FirstWithout(junction_list, {"connected_roads"}) = 0
        rtj == IF edges_reached THEN RoadToJunctions(jr) ELSE <<>>
        bad_edge == FirstUnknownRoad(rtj, roads)
    IN  [roads_raw |-> roads,
         junctions_raw |-> jr,
         junction_locations |-> AddLocations(junction_locations, jr, 0, count),
         adjacency |-> BuildEdges(nodes, roads, jr, Before(rtj, bad_edge), 1),
         map_loaded |-> edges_reached /\ bad_edge = 0]

(***************************************************************************)
(* Map matcher                                                             *)
(***************************************************************************)
\* the squared distance from p to the line through a and b
DistToLine(p, a, b) ==
    IF a = b THEN <<DistanceSq(p, a), 1>>
    ELSE Rat(DistanceSq(p, a) * DistanceSq(b, a)
                - Dot(Sub(p, a), Sub(b, a)) * Dot(Sub(p, a), Sub(b, a)),
             DistanceSq(b, a))

\* _dist_to_segment: the squared distance from p to the segment ab
DistToSegment(p, a, b) ==
    IF a = b THEN <<DistanceSq(p, a), 1>>
    ELSE ClampedDistSq(DistanceSq(p, a), DistanceSq(b, a), Dot(Sub(p, a), Sub(b, a)))

\* a comparison that also lets a segment at the same distance replace the
\* best one
NearerOrLevel(d, min_dist) == ~RatLess(min_dist, d)

\* line 305: a segment replaces the best one only when strictly nearer
Nearer(d, min_dist) == RatLess(d, min_dist)

RECURSIVE ClosestOnPath(_, _, _, _, _)
ClosestOnPath(position, road_id, path, i, best) ==
    IF i > Len(path) - 1 THEN best
    ELSE LET d == DistToSegment(position, path[i], path[i + 1])
         IN ClosestOnPath(position, road_id, path, i + 1,
                IF Nearer(d, best.min_dist)
                THEN [best_road |-> road_id, min_dist |-> d]
                ELSE best)

RECURSIVE ClosestFrom(_, _, _, _)
ClosestFrom(position, roads, n, best) ==
    IF n > Len(roads) THEN best
    ELSE ClosestFrom(position, roads, n + 1,
             ClosestOnPath(position, roads[n].road_id, roads[n].path, 1, best))

\* a matcher that starts from the first road of the table instead of None
GetClosestRoadFromFirst(roads, position) ==
    ClosestFrom(position, roads, 1,
                [best_road |-> IF roads = <<>> THEN None ELSE roads[1].road_id,
                 min_dist |-> Inf])

\* _get_closest_road: (best_road, min_dist), (None, inf) without a segment
GetClosestRoad(roads, position) ==
    ClosestFrom(position, roads, 1, [best_road |-> None, min_dist |-> Inf])

(***************************************************************************)
(* _determine_maneuver                                                     *)
(***************************************************************************)
\* v divided by the gcd of its components: the direction Vector3.normalize
\* gives, kept in integers
Direction(v) ==
    LET g == GCD(GCD(Abs(v[1]), Abs(v[2])), Abs(v[3]))
    IN  IF g = 0 THEN v ELSE <<v[1] \div g, v[2] \div g, v[3] \div g>>

\* lines 408-419: from a point a few indices back to the end of the
\* current road nearest the junction
IncomingVector(r_curr, j_loc) ==
    LET n == Len(r_curr)
    IN  IF DistanceSq(r_curr[n], j_loc) < DistanceSq(r_curr[1], j_loc)
        THEN Sub(r_curr[n], r_curr[Max2(0, n - LOOK_BACK) + 1])
        ELSE Sub(r_curr[1], r_curr[Min2(n - 1, LOOK_BACK) + 1])

\* lines 422-434: from the end of the next road nearest the junction to a
\* point a few indices on
OutgoingVector(r_next, j_loc) ==
    LET n == Len(r_next)
    IN  IF DistanceSq(r_next[1], j_loc) < DistanceSq(r_next[n], j_loc)
        THEN Sub(r_next[Min2(n - 1, LOOK_BACK) + 1], r_next[1])
        ELSE Sub(r_next[Max2(0, n - LOOK_BACK) + 1], r_next[n])

\* dot_val > 0.8 for the normalized vectors: in.out > 0.8 |in| |out|
DotAboveThreshold(vin, vout) ==
    /\ Dot(vin, vout) > 0
    /\ 25 * Dot(vin, vout) * Dot(vin, vout) > 16 * Dot(vin, vin) * Dot(vout, vout)

\* a vanishing cross product taken for a left turn
ClassifyLeftOnZero(vin, vout) ==
    IF DotAboveThreshold(vin, vout) THEN "Go Straight"
    ELSE IF CrossY(vin, vout) >= 0 THEN "Turn Left"
    ELSE "Turn Right"

\* lines 446-455
Classify(vin, vout) ==
    IF DotAboveThreshold(vin, vout) THEN "Go Straight"
    ELSE IF CrossY(vin, vout) > 0 THEN "Turn Left"
    ELSE "Turn Right"

DetermineManeuver(roads, jr, current_road_id, next_road_id, junction_idx) ==
    LET j_loc == jr[junction_idx].location
    IN  Classify(Direction(IncomingVector(Road(roads, current_road_id).path, j_loc)),
                 Direction(OutgoingVector(Road(roads, next_road_id).path, j_loc)))

(***************************************************************************)
(* _recalculate_route                                                      *)
(***************************************************************************)
Contains(list, x) == \E i \in 1..Len(list) : list[i] = x

\* lines 343-348: the junctions whose connected_roads name the road,
\* in index order
ConnectedJunctions(jr, road_id) ==
    {j \in DOMAIN jr : Contains(jr[j].connected_roads, road_id)}

\* a start node that is the first junction of the file whatever the road
StartNodeOfFile(jr, road_id) == 0

StartNodeLast(jr, road_id) ==
    CHOOSE j \in ConnectedJunctions(jr, road_id) :
        \A k \in ConnectedJunctions(jr, road_id) : j >= k

\* line 359: connected_junctions[0]
StartNode(jr, road_id) ==
    CHOOSE j \in ConnectedJunctions(jr, road_id) :
        \A k \in ConnectedJunctions(jr, road_id) : j <= k

\* lines 372-378: the road of each consecutive pair of the junction path
RoadPath(adj, path_indices) ==
    [i \in 1..(Len(path_indices) - 1) |->
        adj[path_indices[i]][path_indices[i + 1]].road_id]

PrependNever(roads, start_road_id) == roads

\* lines 385-387: the start road goes in front unless it is there already
Prepend(roads, start_road_id) ==
    IF roads = <<>> \/ roads[1] # start_road_id
    THEN <<start_road_id>> \o roads
    ELSE roads

RecalculateRouteResettingFirst(route, jr, adj, destination, start_road_id) ==
    IF ConnectedJunctions(jr, start_road_id) = {}
    THEN [junctions |-> route.junctions, roads |-> route.roads,
          emitted |-> FALSE, completed |-> FALSE]
    ELSE LET path_indices == Dijkstra(adj, StartNode(jr, start_road_id), destination)
         IN [junctions |-> path_indices,
             roads |-> Prepend(RoadPath(adj, path_indices), start_road_id),
             emitted |-> FALSE, completed |-> TRUE]

\* the route state after _recalculate_route(start_road_id); completed is
\* false when it returns early (line 355), the map being loaded
RecalculateRoute(route, jr, adj, destination, start_road_id) ==
    IF ConnectedJunctions(jr, start_road_id) = {}
    THEN [junctions |-> route.junctions, roads |-> route.roads,
          emitted |-> route.emitted, completed |-> FALSE]
    ELSE LET path_indices == Dijkstra(adj, StartNode(jr, start_road_id), destination)
         IN [junctions |-> path_indices,
             roads |-> Prepend(RoadPath(adj, path_indices), start_road_id),
             emitted |-> FALSE, completed |-> TRUE]

(***************************************************************************)
(* process: the steps of one tick                                          *)
(***************************************************************************)
\* a test of the enabled flag alone
IsEnabledByFlag == enabled

\* is_enabled of AssistanceSystem, for the system named sat_nav
IsEnabled == enabled /\ sat_nav_enabled

\* lines 470-473: game units to map units
CurrentPos(raw) ==
    <<raw[1] \div GAME_UNITS_PER_METER, raw[2] \div GAME_UNITS_PER_METER,
      raw[3] \div GAME_UNITS_PER_METER>>

\* lines 499-504: pop the roads in front of the matched road; every pop
\* resets next_maneuver_emitted
RECURSIVE PopCompletedKeepingFlag(_, _)
PopCompletedKeepingFlag(route, road_id) ==
    IF route.roads # <<>> /\ route.roads[1] # road_id
    THEN PopCompletedKeepingFlag([junctions |-> route.junctions,
                                  roads |-> Tail(route.roads),
                                  emitted |-> route.emitted,
                                  popped |-> route.popped + 1], road_id)
    ELSE route

\* a pop loop that drops a junction with every road it pops
RECURSIVE PopCompletedWithJunctions(_, _)
PopCompletedWithJunctions(route, road_id) ==
    IF route.roads # <<>> /\ route.roads[1] # road_id
    THEN PopCompletedWithJunctions(
             [junctions |-> IF route.junctions = <<>> THEN <<>> ELSE Tail(route.junctions),
              roads |-> Tail(route.roads),
              emitted |-> FALSE, popped |-> route.popped + 1], road_id)
    ELSE route

RECURSIVE PopCompleted(_, _)
PopCompleted(route, road_id) ==
    IF route.roads # <<>> /\ route.roads[1] # road_id
    THEN PopCompleted([junctions |-> route.junctions, roads |-> Tail(route.roads),
                       emitted |-> FALSE, popped |-> route.popped + 1], road_id)
    ELSE route

WithinTenthOfTolerance(dist_to_road) ==
    RatLess(dist_to_road,
            <<(OFF_ROUTE_TOLERANCE \div 10) * (OFF_ROUTE_TOLERANCE \div 10), 1>>)

\* line 512: dist_to_road < OFF_ROUTE_TOLERANCE
WithinTolerance(dist_to_road) ==
    RatLess(dist_to_road, <<OFF_ROUTE_TOLERANCE * OFF_ROUTE_TOLERANCE, 1>>)

\* lines 489-516: the route logic of one tick.  route is
\* [junctions, roads, emitted]; the result adds what the step did
RouteLogic(route, jr, adj, destination, road_id, dist_to_road) ==
    LET on_route == Contains(route.roads, road_id)
        adv == IF on_route
               THEN PopCompleted([junctions |-> route.junctions, roads |-> route.roads,
                                  emitted |-> route.emitted, popped |-> 0], road_id)
               ELSE [junctions |-> route.junctions, roads |-> route.roads,
                     emitted |-> route.emitted, popped |-> 0]
    IN  IF ~on_route \/ adv.roads = <<>>
        THEN IF WithinTolerance(dist_to_road)
             THEN LET r == RecalculateRoute(adv, jr, adj, destination, road_id)
                  IN [junctions |-> r.junctions, roads |-> r.roads, emitted |-> r.emitted,
                      on_route |-> on_route, popped |-> adv.popped,
                      recalc |-> IF r.completed THEN "completed" ELSE "aborted"]
             ELSE [junctions |-> adv.junctions, roads |-> adv.roads, emitted |-> adv.emitted,
                   on_route |-> on_route, popped |-> adv.popped, recalc |-> "refused"]
        ELSE [junctions |-> adv.junctions, roads |-> adv.roads, emitted |-> adv.emitted,
              on_route |-> on_route, popped |-> adv.popped, recalc |-> "none"]

\* lines 532-537: the first junction of the route that lists both roads,
\* -1 when there is none
RECURSIVE TargetJunction(_, _, _, _, _)
TargetJunction(junctions, jr, road_id, next_road_id, i) ==
    IF i > Len(junctions) THEN -1
    ELSE IF /\ Contains(jr[junctions[i]].connected_roads, road_id)
            /\ Contains(jr[junctions[i]].connected_roads, next_road_id)
    THEN junctions[i]
    ELSE TargetJunction(junctions, jr, road_id, next_road_id, i + 1)

\* line 548
ManeuverDue(dist_sq, emitted) ==
    dist_sq < NOTIFICATION_DISTANCE * NOTIFICATION_DISTANCE /\ ~emitted

ArrivalDueInclusive(dist_sq, emitted) ==
    dist_sq <= ARRIVAL_DISTANCE * ARRIVAL_DISTANCE /\ ~emitted

ArrivalDueIgnoringFlag(dist_sq, emitted) ==
    dist_sq < ARRIVAL_DISTANCE * ARRIVAL_DISTANCE

\* line 575
ArrivalDue(dist_sq, emitted) ==
    dist_sq < ARRIVAL_DISTANCE * ARRIVAL_DISTANCE /\ ~emitted

NoEvents == <<>>

EmitTwice(bus, event) == Append(Append(bus, event), event)

\* event_bus.emit("notification", ...): one event on the bus
Emit(bus, event) == Append(bus, event)

ManeuverEvent(maneuver, dist_sq, road_id, next_road_id, junction) ==
    [kind |-> "maneuver", maneuver |-> maneuver, dist |-> ISqrt(dist_sq),
     road |-> road_id, next_road |-> next_road_id, junction |-> junction]

ArrivalEvent(dist_sq, road_id, junction) ==
    [kind |-> "arrival", maneuver |-> "Destination Reached", dist |-> ISqrt(dist_sq),
     road |-> road_id, next_road |-> None, junction |-> junction]

AfterEmitUnchanged(emitted) == emitted

\* line 558 and line 578: the flag after a notification was emitted
AfterEmit(emitted) == TRUE

\* lines 523-580: the navigation instructions of one tick: the events
\* emitted on the bus and the flag afterwards
Instructions(route, roads, jr, current_pos, road_id) ==
    IF Len(route.roads) >= 2
    THEN LET next_road_id == route.roads[2]
             target == TargetJunction(route.junctions, jr, road_id, next_road_id, 1)
             dist_sq == DistanceSq(current_pos, jr[target].location)
         IN IF target # -1 /\ ManeuverDue(dist_sq, route.emitted)
            THEN [events |-> Emit(NoEvents, ManeuverEvent(
                                  DetermineManeuver(roads, jr, road_id, next_road_id, target),
                                  dist_sq, road_id, next_road_id, target)),
                  emitted |-> AfterEmit(route.emitted)]
            ELSE [events |-> NoEvents, emitted |-> route.emitted]
    ELSE IF Len(route.roads) = 1 /\ route.junctions # <<>>
    THEN LET dest_j_idx == route.junctions[Len(route.junctions)]
             dist_sq == DistanceSq(current_pos, jr[dest_j_idx].location)
         IN IF ArrivalDue(dist_sq, route.emitted)
            THEN [events |-> Emit(NoEvents, ArrivalEvent(dist_sq, road_id, dest_j_idx)),
                  emitted |-> AfterEmit(route.emitted)]
            ELSE [events |-> NoEvents, emitted |-> route.emitted]
    ELSE [events |-> NoEvents, emitted |-> route.emitted]

(***************************************************************************)
(* The observation of a call of process, kept in last: what the call was   *)
(* given, the route state it started from (before), what the route logic   *)
(* did, the events it put on the bus and its return value.  prev and       *)
(* turn relate the call to the calls before it.                            *)
(***************************************************************************)
HasManeuver(events) == \E i \in 1..Len(events) : events[i].kind = "maneuver"

HasArrival(events) == \E i \in 1..Len(events) : events[i].kind = "arrival"

NoTurn == [road |-> None, next_road |-> None, junction |-> None]

TurnOf(e) == [road |-> e.road, next_road |-> e.next_road, junction |-> e.junction]

\* an arrival notification was emitted by the call observed in last, or
\* before it with the route lists as they were ever since
ArrivalStanding ==
    \/ HasArrival(last.events)
    \/ /\ last.prev.arrival
       /\ last.before.roads = current_route_roads
       /\ last.before.junctions = current_route_junctions

\* the junctions that edges lead to from the junctions of seen
RECURSIVE Closure(_, _)
Closure(adj, seen) ==
    LET more == UNION {DOMAIN adj[u] : u \in seen \cap DOMAIN adj}
    IN  IF more \subseteq seen THEN seen ELSE Closure(adj, seen \cup more)

\* the road on which the call observed in last left the vehicle without a
\* path: the road of a recomputation whose destination no edges lead to,
\* kept while every later tick matched that road
StuckBefore ==
    IF last.kind = "tick"
    THEN IF /\ last.recalc = "completed"
            /\ destination_junction_idx
                  \notin Closure(adjacency, {StartNode(junctions_raw, last.road_id)})
         THEN last.road_id
         ELSE IF last.prev.stuck = last.road_id THEN last.road_id ELSE None
    ELSE last.prev.stuck

\* the call observed in last, or a call before it, ended in the KeyError of
\* a load that stopped half way
RaisedBefore == last.kind = "raised" \/ last.prev.raised

\* how a tick at pos follows the call observed in last: whether that call
\* was a tick at the same position, whether it left the route as it found
\* it, whether it emitted a maneuver notification, whether an arrival
\* notification stands, and whether a load has raised
PrevOf(pos) ==
    [same_pos |-> last.kind = "tick" /\ last.pos = pos,
     route_unchanged |-> /\ last.before.roads = current_route_roads
                         /\ last.before.junctions = current_route_junctions,
     maneuver |-> HasManeuver(last.events),
     arrival |-> ArrivalStanding,
     stuck |-> StuckBefore,
     raised |-> RaisedBefore]

NoPrev ==
    [same_pos |-> FALSE, route_unchanged |-> FALSE, maneuver |-> FALSE, arrival |-> FALSE,
     stuck |-> None, raised |-> FALSE]

\* how a call that is no tick follows the call observed in last
KeptPrev ==
    [same_pos |-> FALSE, route_unchanged |-> FALSE, maneuver |-> FALSE,
     arrival |-> ArrivalStanding, stuck |-> StuckBefore, raised |-> RaisedBefore]

\* the turn of the latest maneuver notification, kept while every later
\* tick finds the vehicle within the notification distance of its junction
TurnAfter(pos, jr, events) ==
    IF HasManeuver(events) THEN TurnOf(events[1])
    ELSE IF last.turn = NoTurn THEN NoTurn
    ELSE IF DistanceSq(pos, jr[last.turn.junction].location)
              < NOTIFICATION_DISTANCE * NOTIFICATION_DISTANCE
    THEN last.turn
    ELSE NoTurn

\* this tick notified the turn that was notified before, the vehicle not
\* having left the notification distance of the junction in between
RepeatOf(events) ==
    HasManeuver(events) /\ last.turn # NoTurn /\ TurnOf(events[1]) = last.turn

Observation(kind, pos, m, before, rl, events, result, prev, turn, repeat) ==
    [kind |-> kind, pos |-> pos, road_id |-> m.best_road, dist |-> m.min_dist,
     before |-> before,
     on_route |-> rl.on_route, popped |-> rl.popped, recalc |-> rl.recalc,
     route_emitted |-> rl.emitted, events |-> events, result |-> result,
     prev |-> prev, turn |-> turn, repeat |-> repeat]

\* the route state a call of process starts from
RouteNow ==
    [junctions |-> current_route_junctions, roads |-> current_route_roads,
     emitted |-> next_maneuver_emitted]

NoPos == <<0, 0, 0>>

NoMatch == [best_road |-> None, min_dist |-> Inf]

NoRouteLogic ==
    [on_route |-> FALSE, popped |-> 0, recalc |-> "none", emitted |-> next_maneuver_emitted]

Result(active, status, current_road) ==
    [sat_nav_active |-> active, status |-> status, current_road |-> current_road]

(***************************************************************************)
(* Actions                                                                 *)
(***************************************************************************)
\* the load run by every call that finds a readable file
MapNowReloading ==
    IF Readable(track_file)
    THEN LoadMapData(TrackData(track_file))
    ELSE [roads_raw |-> roads_raw, junctions_raw |-> junctions_raw,
          junction_locations |-> junction_locations, adjacency |-> adjacency,
          map_loaded |-> map_loaded]

\* the data process works on once the map is loaded: the tables in
\* memory, or the ones the load of this tick builds
MapNow ==
    IF map_loaded
    THEN [roads_raw |-> roads_raw, junctions_raw |-> junctions_raw,
          junction_locations |-> junction_locations, adjacency |-> adjacency,
          map_loaded |-> TRUE]
    ELSE LoadMapData(TrackData(track_file))

\* process while the system is disabled (lines 459-460); the vehicle is
\* not read
ProcessDisabled ==
    /\ ~IsEnabled
    /\ last' = Observation("disabled", NoPos, NoMatch, RouteNow, NoRouteLogic, NoEvents,
                           Result(FALSE, NoStatus, None), KeptPrev, NoTurn, FALSE)
    /\ UNCHANGED <<enabled, sat_nav_enabled, track_file, map_loaded, roads_raw,
                   junctions_raw, adjacency, junction_locations,
                   destination_junction_idx, current_route_junctions,
                   current_route_roads, last_known_road_id, next_maneuver_emitted>>

\* a failed load taken for a finished one
ProcessLoadFailedForGood ==
    /\ IsEnabled
    /\ ~map_loaded
    /\ ~Readable(track_file)
    /\ map_loaded' = TRUE
    /\ last' = Observation("load_failed", NoPos, NoMatch, RouteNow, NoRouteLogic, NoEvents,
                           Result(FALSE, "Map failed load", None), KeptPrev, NoTurn, FALSE)
    /\ UNCHANGED <<enabled, sat_nav_enabled, track_file, roads_raw,
                   junctions_raw, adjacency, junction_locations,
                   destination_junction_idx, current_route_junctions,
                   current_route_roads, last_known_road_id, next_maneuver_emitted>>

\* process when the load fails (lines 463-466, 166-175); the vehicle is
\* not read
ProcessLoadFailed ==
    /\ IsEnabled
    /\ ~map_loaded
    /\ ~Readable(track_file)
    /\ last' = Observation("load_failed", NoPos, NoMatch, RouteNow, NoRouteLogic, NoEvents,
                           Result(FALSE, "Map failed load", None), KeptPrev, NoTurn, FALSE)
    /\ UNCHANGED <<enabled, sat_nav_enabled, track_file, map_loaded, roads_raw,
                   junctions_raw, adjacency, junction_locations,
                   destination_junction_idx, current_route_junctions,
                   current_route_roads, last_known_road_id, next_maneuver_emitted>>

\* the call of process ends in the KeyError that a lookup of the load
\* raised: nothing is returned
Raised == [raised |-> "KeyError"]

\* process when the load raises (lines 463-464, 178-211): the exception
\* leaves _load_map_data and process, the tables keep what the load had
\* stored, map_loaded stays False; the vehicle is not read
ProcessLoadRaised ==
    /\ IsEnabled
    /\ ~map_loaded
    /\ Readable(track_file)
    /\ \E map \in {MapNow} :
           /\ ~map.map_loaded
           /\ roads_raw' = map.roads_raw
           /\ junctions_raw' = map.junctions_raw
           /\ junction_locations' = map.junction_locations
           /\ adjacency' = map.adjacency
    /\ last' = Observation("raised", NoPos, NoMatch, RouteNow, NoRouteLogic, NoEvents,
                           Raised, KeptPrev, NoTurn, FALSE)
    /\ UNCHANGED <<enabled, sat_nav_enabled, track_file, map_loaded,
                   destination_junction_idx, current_route_junctions,
                   current_route_roads, last_known_road_id, next_maneuver_emitted>>

\* process with the map loaded, or loaded by this call (lines 463-586)
ProcessTick(raw) ==
    /\ IsEnabled
    /\ map_loaded \/ Readable(track_file)
    /\ \E map \in {MapNow} :
       /\ map.map_loaded
       /\ \E m \in {GetClosestRoad(map.roads_raw, CurrentPos(raw))} :
           /\ map_loaded' = TRUE
           /\ roads_raw' = map.roads_raw
           /\ junctions_raw' = map.junctions_raw
           /\ junction_locations' = map.junction_locations
           /\ adjacency' = map.adjacency
           /\ IF m.best_road = None
              THEN /\ last' = Observation("off_map", CurrentPos(raw), m, RouteNow,
                                          NoRouteLogic, NoEvents,
                                          Result(TRUE, "Off Map", None),
                                          KeptPrev, NoTurn, FALSE)
                   /\ UNCHANGED <<current_route_junctions, current_route_roads,
                                  last_known_road_id, next_maneuver_emitted>>
              ELSE \E rl \in {RouteLogic(RouteNow, map.junctions_raw, map.adjacency,
                                         destination_junction_idx, m.best_road,
                                         m.min_dist)} :
                   \E ins \in {Instructions(rl, map.roads_raw, map.junctions_raw,
                                            CurrentPos(raw), m.best_road)} :
                       /\ current_route_junctions' = rl.junctions
                       /\ current_route_roads' = rl.roads
                       /\ last_known_road_id' = m.best_road
                       /\ next_maneuver_emitted' = ins.emitted
                       /\ last' = Observation("tick", CurrentPos(raw), m, RouteNow, rl,
                                              ins.events,
                                              Result(TRUE, NoStatus, m.best_road),
                                              PrevOf(CurrentPos(raw)),
                                              TurnAfter(CurrentPos(raw), map.junctions_raw,
                                                        ins.events),
                                              RepeatOf(ins.events))
    /\ UNCHANGED <<enabled, sat_nav_enabled, track_file, destination_junction_idx>>

\* AssistanceManager.enable_system('sat_nav', b)
EnableSystem(b) ==
    /\ enabled # b
    /\ enabled' = b
    /\ UNCHANGED <<sat_nav_enabled, track_file, map_loaded, roads_raw,
                   junctions_raw, adjacency, junction_locations,
                   destination_junction_idx, current_route_junctions,
                   current_route_roads, last_known_road_id, next_maneuver_emitted,
                   last, harness>>

\* SettingsManager.set('sat_nav_enabled', b)
SetSetting(b) ==
    /\ sat_nav_enabled # b
    /\ sat_nav_enabled' = b
    /\ UNCHANGED <<enabled, track_file, map_loaded, roads_raw,
                   junctions_raw, adjacency, junction_locations,
                   destination_junction_idx, current_route_junctions,
                   current_route_roads, last_known_road_id, next_maneuver_emitted,
                   last, harness>>

\* the track file is written, replaced or removed while no map is loaded
InstallTrackFile(f) ==
    /\ ~map_loaded
    /\ track_file # f
    /\ track_file' = f
    /\ UNCHANGED <<enabled, sat_nav_enabled, map_loaded, roads_raw,
                   junctions_raw, adjacency, junction_locations,
                   destination_junction_idx, current_route_junctions,
                   current_route_roads, last_known_road_id, next_maneuver_emitted,
                   last, harness>>

\* the caller picks the destination junction before navigation starts
SetDestination(j) ==
    /\ ~map_loaded
    /\ last.kind = "none"
    /\ destination_junction_idx # j
    /\ destination_junction_idx' = j
    /\ UNCHANGED <<enabled, sat_nav_enabled, track_file, map_loaded, roads_raw,
                   junctions_raw, adjacency, junction_locations,
                   current_route_junctions, current_route_roads,
                   last_known_road_id, next_maneuver_emitted, last, harness>>

(***************************************************************************)
(* Inputs                                                                  *)
(***************************************************************************)
\* vehicle positions in metres; process receives them in game units
SamplePositions ==
    { <<0,0,0>>, <<100,0,0>>, <<200,0,0>>, <<300,0,0>>, <<360,0,0>>, <<400,0,0>>,
      <<200,100,0>>, <<100,50,0>>, <<100,49,0>>, <<250,100,0>>,
      <<25,200,0>>, <<400,100,0>>, <<400,180,0>>, <<25,-200,0>> }

GameUnits(p) ==
    <<p[1] * GAME_UNITS_PER_METER, p[2] * GAME_UNITS_PER_METER,
      p[3] * GAME_UNITS_PER_METER>>

\* junction indices the caller may pick; 1 is the default of line 149
Destinations == {1, 2, 4, 5}

NoHarness == [kind |-> "none"]

\* the state after NavigationSystem.__init__ (lines 135-160)
InitNav ==
    /\ enabled = TRUE
    /\ sat_nav_enabled = TRUE
    /\ map_loaded = FALSE
    /\ roads_raw = <<>>
    /\ junctions_raw = <<>>
    /\ adjacency = EmptyMap
    /\ junction_locations = EmptyMap
    /\ destination_junction_idx = DEFAULT_DESTINATION
    /\ current_route_junctions = <<>>
    /\ current_route_roads = <<>>
    /\ last_known_road_id = None
    /\ next_maneuver_emitted = FALSE
    /\ last = Observation("none", NoPos, NoMatch,
                          [junctions |-> <<>>, roads |-> <<>>, emitted |-> FALSE],
                          [on_route |-> FALSE, popped |-> 0, recalc |-> "none",
                           emitted |-> FALSE],
                          NoEvents, Result(FALSE, NoStatus, None), NoPrev, NoTurn, FALSE)

Init ==
    /\ InitNav
    /\ track_file \in TrackFiles
    /\ harness = NoHarness

Next ==
    \/ ProcessDisabled /\ UNCHANGED harness
    \/ ProcessLoadFailed /\ UNCHANGED harness
    \/ \E p \in SamplePositions : ProcessTick(GameUnits(p)) /\ UNCHANGED harness
    \/ \E b \in BOOLEAN : EnableSystem(b)
    \/ \E b \in BOOLEAN : SetSetting(b)
    \/ \E f \in TrackFiles : InstallTrackFile(f)
    \/ \E j \in Destinations : SetDestination(j)

Spec == Init /\ [][Next]_vars

(***************************************************************************)
(* Properties of the route resolver, checked under Spec.                   *)
(***************************************************************************)
Tick == last.kind = "tick"

\* squared tolerance as a fraction, for comparison with last.dist
ToleranceSq == <<OFF_ROUTE_TOLERANCE * OFF_ROUTE_TOLERANCE, 1>>

BelowTolerance == last.dist[1] < ToleranceSq[1] * last.dist[2]

RecalcInvoked == last.recalc \in {"completed", "aborted"}

RouteUnchanged ==
    /\ current_route_roads = last.before.roads
    /\ current_route_junctions = last.before.junctions

\* position of the matched road in the route the tick started from
MatchedAt == CHOOSE k \in 1..Len(last.before.roads) : last.before.roads[k] = last.road_id
                 /\ \A i \in 1..(k - 1) : last.before.roads[i] # last.road_id

SuffixFrom(list, k) == SubSeq(list, k, Len(list))

\* C1: in a tick whose matched road is not in the route (or whose route is
\* empty), _recalculate_route is invoked iff the matched distance is
\* strictly below the tolerance 50; at a distance of exactly 50 the tick
\* leaves current_route_roads, current_route_junctions and
\* next_maneuver_emitted as they were.
C1_OffRouteBoundary ==
    (Tick /\ ~last.on_route) =>
        /\ RecalcInvoked <=> BelowTolerance
        /\ last.dist = ToleranceSq =>
              /\ RouteUnchanged
              /\ next_maneuver_emitted = last.before.emitted

\* C1, the part the code keeps: recomputation iff strictly below the
\* tolerance, and at or above it the route lists are unchanged and the
\* flag is not reset (it changes only by a notification of the same tick).
C1_RecomputeIffBelowTolerance ==
    (Tick /\ ~last.on_route) =>
        /\ RecalcInvoked <=> BelowTolerance
        /\ ~BelowTolerance =>
              /\ RouteUnchanged
              /\ last.route_emitted = last.before.emitted
              /\ next_maneuver_emitted = (last.before.emitted \/ last.events # <<>>)

C1_AtToleranceWithRoute ==
    /\ Tick
    /\ ~last.on_route
    /\ last.dist = ToleranceSq
    /\ last.before.roads # <<>>
    /\ last.events # <<>>

\* C2 as stated: when the matched road is at position k >= 1 of the route
\* (k counted from 0), the first k roads are popped and next_maneuver_emitted
\* is false after the tick; when it is first, nothing is popped and the
\* flag keeps its value.
C2_LegAdvancementAsStated ==
    (Tick /\ last.on_route) =>
        /\ current_route_roads = SuffixFrom(last.before.roads, MatchedAt)
        /\ last.popped = MatchedAt - 1
        /\ MatchedAt > 1 => ~next_maneuver_emitted
        /\ MatchedAt = 1 => next_maneuver_emitted = last.before.emitted

\* C2 amended: the route becomes the suffix that starts at the matched
\* road; when roads were popped the flag is reset, so that it is true after
\* the tick exactly if the tick itself emitted a notification (for the new
\* leg); when the matched road was first, nothing is popped and the flag
\* changes only by a notification of this tick.
C2_LegAdvancement ==
    (Tick /\ last.on_route) =>
        /\ current_route_roads = SuffixFrom(last.before.roads, MatchedAt)
        /\ current_route_junctions = last.before.junctions
        /\ last.popped = MatchedAt - 1
        /\ MatchedAt > 1 =>
              /\ ~last.route_emitted
              /\ next_maneuver_emitted <=> last.events # <<>>
        /\ MatchedAt = 1 =>
              /\ current_route_roads = last.before.roads
              /\ next_maneuver_emitted <=> (last.before.emitted \/ last.events # <<>>)

\* a tick that popped a road while the flag was set, and left it reset
C2_PoppedWithFlagSet ==
    /\ Tick
    /\ last.popped >= 1
    /\ last.before.emitted
    /\ ~next_maneuver_emitted

\* C3: of two consecutive ticks at the same position that both leave the
\* route unchanged, at most one emits a maneuver notification.
C3_IdempotentNotification ==
    (Tick /\ last.prev.same_pos /\ last.prev.route_unchanged /\ RouteUnchanged) =>
        ~(last.prev.maneuver /\ HasManeuver(last.events))

\* the replay of a position whose first tick emitted the maneuver
C3_ReplayAfterNotification ==
    /\ Tick
    /\ last.prev.same_pos
    /\ last.prev.route_unchanged
    /\ last.prev.maneuver
    /\ RouteUnchanged
    /\ Len(current_route_roads) >= 2

\* C7 as stated: after every tick that matched a road, a non-empty route
\* has the matched road first.
C7_MatchedRoadFirstAlways ==
    (Tick /\ current_route_roads # <<>>) => current_route_roads[1] = last.road_id

\* C7 amended: after a tick whose matched road was in the route, or that
\* completed a recomputation, the route is non-empty and has the matched
\* road first; a tick whose matched road is not in the route and whose
\* matched distance is at or above the tolerance leaves the route lists as
\* they were, whatever their first road.
C7_MatchedRoadFirst ==
    Tick =>
        /\ (last.on_route \/ last.recalc = "completed") =>
              current_route_roads # <<>> /\ current_route_roads[1] = last.road_id
        /\ (~last.on_route /\ ~BelowTolerance) => RouteUnchanged

\* a recomputation that put the matched road in front of the path's roads
C7_RecomputedWithPrepend ==
    /\ Tick
    /\ last.recalc = "completed"
    /\ Len(current_route_roads) >= 2
    /\ Len(current_route_roads) = Len(current_route_junctions)

\* C8: a non-empty route has one road less than it has junctions.
C8_RoadsOneShorter ==
    current_route_roads # <<>> =>
        Len(current_route_roads) = Len(current_route_junctions) - 1

\* C9: next_maneuver_emitted goes from true to false only in a tick that
\* pops at least one road or completes a recomputation.
C9_FlagClearedOnlyByLegChange ==
    [][(next_maneuver_emitted /\ ~next_maneuver_emitted') =>
          /\ last'.kind = "tick"
          /\ last'.popped > 0 \/ last'.recalc = "completed"]_vars

\* the flag survived a tick that neither popped nor recomputed: one whose
\* recomputation returned early
C9_FlagKeptThroughAbort ==
    /\ Tick
    /\ last.before.emitted
    /\ next_maneuver_emitted
    /\ last.recalc = "aborted"

\* C10: no maneuver notification repeats the turn notified before while
\* the vehicle has stayed within the notification distance of its junction.
C10_NoDuplicateTurnNotification == ~last.repeat

(***************************************************************************)
(* Graph harness: graphs built by add_junction and add_road_connection,    *)
(* then searched by dijkstra.  Specification GraphSpec.                    *)
(***************************************************************************)
NumJunctions == 3

NumGraphRoads == 3

GraphJunctions == 0..(NumJunctions - 1)

\* the nodes a search is asked about: the junctions and one index that
\* was never added
QueryNodes == 0..NumJunctions

GraphRoads == 1..NumGraphRoads

\* the road table of the harness: road r has length r - 1
GraphRoadLength(r) == r - 1

GraphInit ==
    /\ InitNav
    /\ track_file = "missing"
    /\ harness = [kind |-> "built", adjacency |-> AddJunctions(EmptyMap, 0, NumJunctions)]

\* graph.add_road_connection(j_from, j_to, r, length of r)
GraphAddRoadConnection(j_from, j_to, r) ==
    /\ harness.kind = "built"
    /\ j_from # j_to
    /\ harness' = [kind |-> "built",
                   adjacency |-> AddRoadConnection(harness.adjacency, j_from, j_to, r,
                                                   GraphRoadLength(r))]
    /\ UNCHANGED <<enabled, sat_nav_enabled, track_file, map_loaded, roads_raw,
                   junctions_raw, adjacency, junction_locations,
                   destination_junction_idx, current_route_junctions,
                   current_route_roads, last_known_road_id, next_maneuver_emitted,
                   last>>

\* graph.dijkstra(s, t)
GraphDijkstra(s, t) ==
    /\ harness.kind = "built"
    /\ \E run \in {DijkstraRun(harness.adjacency, s, t)} :
          harness' = [kind |-> "searched", adjacency |-> harness.adjacency,
                      start |-> s, end |-> t, path |-> run.path,
                      expanded |-> run.expanded, iteration |-> run.iteration]
    /\ UNCHANGED <<enabled, sat_nav_enabled, track_file, map_loaded, roads_raw,
                   junctions_raw, adjacency, junction_locations,
                   destination_junction_idx, current_route_junctions,
                   current_route_roads, last_known_road_id, next_maneuver_emitted,
                   last>>

GraphNext ==
    \/ \E j_from, j_to \in GraphJunctions : \E r \in GraphRoads :
          GraphAddRoadConnection(j_from, j_to, r)
    \/ \E s, t \in QueryNodes : GraphDijkstra(s, t)

GraphSpec == GraphInit /\ [][GraphNext]_vars

Searched == harness.kind = "searched"

HasEdge(adj, u, v) == u \in DOMAIN adj /\ v \in DOMAIN adj[u]

\* the nodes reachable from the nodes of seen along edges
RECURSIVE ReachableFrom(_, _)
ReachableFrom(adj, seen) ==
    LET more == {v \in QueryNodes : \E u \in seen : HasEdge(adj, u, v)}
    IN  IF more \subseteq seen THEN seen ELSE ReachableFrom(adj, seen \cup more)

IsPath(adj, p) == \A i \in 1..(Len(p) - 1) : HasEdge(adj, p[i], p[i + 1])

NoRepeat(p) == \A i, j \in 1..Len(p) : i # j => p[i] # p[j]

RECURSIVE PathCost(_, _)
PathCost(adj, p) ==
    IF Len(p) <= 1 THEN 0
    ELSE adj[p[1]][p[2]].length + PathCost(adj, Tail(p))

\* all simple paths that start in s, by brute force
RECURSIVE Extensions(_, _)
Extensions(adj, paths) ==
    LET longer == {Append(p, v) : p \in paths, v \in QueryNodes} 
        ok == {p \in longer : HasEdge(adj, p[Len(p) - 1], p[Len(p)])
                               /\ \A i \in 1..(Len(p) - 1) : p[i] # p[Len(p)]}
    IN  IF ok = {} THEN paths ELSE paths \cup Extensions(adj, ok)

SimplePaths(adj, s, t) == {p \in Extensions(adj, {<<s>>}) : p[Len(p)] = t}

\* C5: the path dijkstra returns costs no more than any path between the
\* same two junctions (every simple path, found by brute force).
C5_ShortestPathOptimal ==
    (Searched /\ harness.path # <<>>) =>
        /\ IsPath(harness.adjacency, harness.path)
        /\ \A p \in SimplePaths(harness.adjacency, harness.start, harness.end) :
              PathCost(harness.adjacency, harness.path) <= PathCost(harness.adjacency, p)

\* a search whose direct edge is dearer than the way round it took
C5_DetourTaken ==
    /\ Searched
    /\ Len(harness.path) = 3
    /\ HasEdge(harness.adjacency, harness.start, harness.end)
    /\ PathCost(harness.adjacency, harness.path)
         < harness.adjacency[harness.start][harness.end].length

\* C6: dijkstra returns the empty list exactly when the destination cannot
\* be reached; otherwise a list from s to t without a repeated junction,
\* consecutive junctions joined by an edge; [s] for s = t.
C6_PathShape ==
    Searched =>
        /\ harness.path = <<>> <=>
              harness.end \notin ReachableFrom(harness.adjacency, {harness.start})
        /\ harness.path # <<>> =>
              /\ harness.path[1] = harness.start
              /\ harness.path[Len(harness.path)] = harness.end
              /\ NoRepeat(harness.path)
              /\ IsPath(harness.adjacency, harness.path)
        /\ harness.start = harness.end => harness.path = <<harness.start>>

\* a search across two edges
C6_ReachedOverTwoEdges ==
    /\ Searched
    /\ Len(harness.path) = 3
    /\ ~HasEdge(harness.adjacency, harness.start, harness.end)

(***************************************************************************)
(* Drive harness: the line track (J0 - road 10 - J1 - road 11 - J2), the   *)
(* destination J2, and a vehicle that starts on road 10 and drives along   *)
(* the line to J2, one call of process per step.  Specification DriveSpec. *)
(***************************************************************************)
\* the longest step between two ticks, in cells of ten metres
MaxStep == 3

\* the roads and junctions of the line track; junction indices are
\* positions in the file's list, from 0
R0 == LineTrack.roads[1].road_id

R1 == LineTrack.roads[2].road_id

J1 == Len(LineTrack.junctions) - 2

J2 == Len(LineTrack.junctions) - 1

DriveCell(i) == <<10 * i, 0, 0>>

CellOf(location) == location[1] \div 10

\* the cells of road 10, and the cell of J2
StartCells == 0..CellOf(LineTrack.junctions[2].location)

LastCell == CellOf(LineTrack.junctions[3].location)

NoCell == None

DriveInit ==
    /\ InitNav
    /\ track_file = "line"
    /\ \E c \in StartCells :
          harness = [kind |-> "drive", start |-> c, cell |-> c, ticked |-> FALSE,
                     notes |-> <<>>, first_route |-> <<>>,
                     near_j1 |-> NoCell, near_j2 |-> NoCell]

Within(cell, j, reach) ==
    DistanceSq(DriveCell(cell), junctions_raw'[j].location) < reach * reach

Notes(events, cell) ==
    [i \in 1..Len(events) |->
        [kind |-> events[i].kind, maneuver |-> events[i].maneuver, cell |-> cell]]

\* the vehicle moves k cells on (the first tick finds it where it started)
\* and process runs; the harness notes what the call did
DriveTick(k) ==
    /\ harness.kind = "drive"
    /\ destination_junction_idx = J2
    /\ \E c \in {IF harness.ticked THEN harness.cell + k ELSE harness.cell} :
          /\ c <= LastCell
          /\ ProcessTick(GameUnits(DriveCell(c)))
          /\ harness' =
               [harness EXCEPT
                  !.cell = c,
                  !.ticked = TRUE,
                  !.notes = @ \o Notes(last'.events, c),
                  !.first_route =
                      IF @ = <<>> /\ last'.recalc = "completed"
                      THEN <<[junctions |-> current_route_junctions',
                              roads |-> current_route_roads']>>
                      ELSE @,
                  !.near_j1 =
                      IF @ = NoCell /\ Within(c, J1, NOTIFICATION_DISTANCE)
                      THEN c ELSE @,
                  !.near_j2 =
                      IF /\ @ = NoCell
                         /\ current_route_roads' = <<R1>>
                         /\ Within(c, J2, ARRIVAL_DISTANCE)
                      THEN c ELSE @]

DriveNext ==
    \/ SetDestination(J2)
    \/ \E k \in 0..MaxStep : DriveTick(k)

DriveSpec == DriveInit /\ [][DriveNext]_vars

Driving == harness.kind = "drive" /\ harness.ticked

NotesOf(kind) == {i \in 1..Len(harness.notes) : harness.notes[i].kind = kind}

\* C4: on the line J0 - R0 - J1 - R1 - J2 with destination J2, the search
\* from J0 to J2 returns [J0, J1, J2], the first recomputation yields the
\* roads [R0, R1], one "Go Straight" notification is emitted, at the first
\* tick within 150 of J1, one arrival notification is emitted, at the
\* first tick within 50 of J2 with R1 the only road left, and the maneuver
\* notification comes first.
C4_LineScenario ==
    Driving =>
        /\ Dijkstra(adjacency, 0, J2) = <<0, J1, J2>>
        /\ harness.first_route = <<[junctions |-> <<0, J1, J2>>, roads |-> <<R0, R1>>]>>
        /\ \A i \in NotesOf("maneuver") :
              /\ harness.notes[i].maneuver = "Go Straight"
              /\ harness.notes[i].cell = harness.near_j1
              /\ i = 1
        /\ harness.near_j1 # NoCell => NotesOf("maneuver") = {1}
        /\ \A i \in NotesOf("arrival") :
              /\ harness.notes[i].cell = harness.near_j2
              /\ i = 2
        /\ harness.near_j2 # NoCell => NotesOf("arrival") = {2}
        /\ harness.cell = LastCell => Len(harness.notes) = 2

\* the vehicle started beyond the notification distance of J1 and has
\* reached J2, notified of the junction and of the arrival on its way
C4_DroveToDestination ==
    /\ Driving
    /\ harness.start < 5
    /\ harness.cell = LastCell
    /\ harness.near_j1 > harness.start
    /\ harness.near_j2 # NoCell
    /\ Len(harness.notes) = 2

(***************************************************************************)
(* Properties of the notifications and of the recomputation, checked       *)
(* under Spec.                                                             *)
(***************************************************************************)
\* the route is OnRoute with a next road after the tick's route logic
OnRouteWithNext ==
    /\ Len(current_route_roads) >= 2
    /\ current_route_roads[1] = last.road_id

\* C11: a tick emits a maneuver notification only if, after its route
\* logic, current_route_roads has at least two entries and the first is
\* the matched road.
C11_ManeuverOnlyOnRoute ==
    (Tick /\ HasManeuver(last.events)) => OnRouteWithNext

\* a maneuver notification of a tick that is OnRoute with a next road
C11_ManeuverOnRoute ==
    /\ Tick
    /\ HasManeuver(last.events)
    /\ OnRouteWithNext

\* the squared distance from the position of the tick to the last
\* junction of the route
DistSqToFinalJunction ==
    DistanceSq(last.pos,
               junctions_raw[current_route_junctions[Len(current_route_junctions)]].location)

WithinArrival == DistSqToFinalJunction < ARRIVAL_DISTANCE * ARRIVAL_DISTANCE

\* C12: a tick whose route logic ends with exactly one road (and a final
\* junction) and next_maneuver_emitted false emits an arrival notification
\* iff the position is strictly within 50 of the final junction; the
\* notification sets the flag, and no later tick emits an arrival
\* notification again while the route lists stay as they are.
C12_ArrivalOnce ==
    Tick =>
        /\ (/\ Len(current_route_roads) = 1
            /\ current_route_junctions # <<>>
            /\ ~last.route_emitted) =>
              /\ HasArrival(last.events) <=> WithinArrival
              /\ HasArrival(last.events) => next_maneuver_emitted
        /\ (last.prev.arrival /\ RouteUnchanged) => ~HasArrival(last.events)

\* a tick within the arrival threshold after the arrival was notified
C12_SilentAfterArrival ==
    /\ Tick
    /\ last.prev.arrival
    /\ RouteUnchanged
    /\ Len(current_route_roads) = 1
    /\ current_route_junctions # <<>>
    /\ WithinArrival
    /\ last.events = <<>>

Touching(r) ==
    {j \in DOMAIN junctions_raw :
        \E i \in 1..Len(junctions_raw[j].connected_roads) :
            junctions_raw[j].connected_roads[i] = r}

LowestTouching(r) == CHOOSE j \in Touching(r) : \A k \in Touching(r) : j <= k

\* the road ids on the edges between consecutive junctions of path
EdgeRoads(path) ==
    [i \in 1..(Len(path) - 1) |-> adjacency[path[i]][path[i + 1]].road_id]

\* C14: after a completed recomputation for the matched road r,
\* current_route_junctions is dijkstra(j0, destination) with j0 the
\* lowest-index junction that lists r, current_route_roads is the road ids
\* of the path's edges with r put in front exactly when they are empty or
\* do not start with r, and next_maneuver_emitted is false when the
\* recomputation returns.
C14_RecomputedRoute ==
    (Tick /\ last.recalc = "completed") =>
        LET r == last.road_id
            path == Dijkstra(adjacency, LowestTouching(r), destination_junction_idx)
            off == EdgeRoads(path)
        IN  /\ current_route_junctions = path
            /\ current_route_roads =
                  IF off = <<>> \/ off[1] # r THEN <<r>> \o off ELSE off
            /\ ~last.route_emitted

\* a recomputation whose path of two edges starts with the matched road
C14_RecomputedTwoLegs ==
    /\ Tick
    /\ last.recalc = "completed"
    /\ Len(current_route_junctions) = 3
    /\ current_route_roads = EdgeRoads(current_route_junctions)
    /\ Cardinality(Touching(last.road_id)) = 2

\* the matched distance exceeds the off-route tolerance
BeyondTolerance == RatLess(ToleranceSq, last.dist)

\* C15: a tick whose matched distance exceeds the tolerance leaves
\* current_route_roads and current_route_junctions as they were and runs
\* no shortest-path search, whether the matched road is in the route or not.
C15_OffMapFrozen ==
    (Tick /\ BeyondTolerance) =>
        /\ RouteUnchanged
        /\ last.recalc # "completed"

\* a tick beyond the tolerance whose matched road is a later road of the
\* route
C15_BeyondToleranceOnRoute ==
    /\ Tick
    /\ BeyondTolerance
    /\ last.on_route
    /\ last.before.roads[1] # last.road_id

\* C16: the result of a tick whose matched distance exceeds the tolerance
\* carries the 'Off Map' status, which the result of a tick within the
\* tolerance does not carry.
C16_OffMapStatus ==
    Tick =>
        /\ BeyondTolerance => last.result.status = "Off Map"
        /\ ~BeyondTolerance => last.result.status # "Off Map"

\* a tick beyond the tolerance whose result names the matched road
C16_BeyondToleranceResult ==
    /\ Tick
    /\ BeyondTolerance
    /\ last.result.current_road = last.road_id
    /\ last.result.sat_nav_active

\* the tick ran a recomputation whose shortest-path search returned the
\* empty path
SearchCameBackEmpty ==
    /\ Tick
    /\ last.recalc = "completed"
    /\ Dijkstra(adjacency, LowestTouching(last.road_id), destination_junction_idx) = <<>>

\* C17: when the search of a recomputation returns the empty path, both
\* current_route_roads and current_route_junctions are empty after the tick.
C17_UnreachableLeavesRouteEmpty ==
    SearchCameBackEmpty =>
        /\ current_route_roads = <<>>
        /\ current_route_junctions = <<>>

\* an empty search result on a road whose junction has no edge
C17_UnreachableFromDeadEnd ==
    /\ SearchCameBackEmpty
    /\ last.before.roads = <<>>
    /\ current_route_junctions = <<>>

\* no edges lead from the lowest junction of road r to the destination
NoPathFrom(r) ==
    destination_junction_idx \notin Closure(adjacency, {LowestTouching(r)})

\* the tick ran a recomputation without a path, or follows such a tick
\* with the vehicle matched to the same road ever since
Stuck ==
    /\ Tick
    /\ \/ last.recalc = "completed" /\ NoPathFrom(last.road_id)
       \/ last.prev.stuck = last.road_id

\* C18: the tick whose recomputation finds no path to the destination, and
\* every following tick while the vehicle stays matched to the same road,
\* emit no notification.
C18_SilentWhileUnreachable == Stuck => last.events = <<>>

\* a later tick on the road of the failed search
C18_StillOnStuckRoad ==
    /\ Tick
    /\ last.prev.stuck = last.road_id
    /\ last.recalc = "none"
    /\ last.prev.same_pos = FALSE

\* edges lead from a junction of the matched road to the destination
DestinationReachable ==
    /\ Touching(last.road_id) # {}
    /\ destination_junction_idx \in Closure(adjacency, Touching(last.road_id))

ActiveRoute ==
    /\ current_route_roads # <<>>
    /\ current_route_roads[1] = last.road_id
    /\ current_route_junctions # <<>>
    /\ current_route_junctions[Len(current_route_junctions)] = destination_junction_idx

\* C19: whatever came before, a tick whose matched distance is below the
\* tolerance and from whose matched road the destination can be reached
\* ends with an active route: the matched road first in
\* current_route_roads, and current_route_junctions ending with the
\* destination.
C19_Resumption ==
    (Tick /\ BelowTolerance /\ DestinationReachable) => ActiveRoute

\* guidance resumes on another road after a search without a path
C19_ResumedAfterUnreachable ==
    /\ Tick
    /\ last.prev.stuck # None
    /\ last.prev.stuck # last.road_id
    /\ BelowTolerance
    /\ DestinationReachable
    /\ last.recalc = "completed"
    /\ ActiveRoute

(***************************************************************************)
(* Properties of the graph, checked under GraphSpec; the graph of a loaded *)
(* network is the variable adjacency.                                      *)
(***************************************************************************)
Symmetric(adj) ==
    \A u \in DOMAIN adj : \A v \in DOMAIN adj[u] :
        /\ v \in DOMAIN adj
        /\ u \in DOMAIN adj[v]
        /\ adj[v][u] = adj[u][v]

\* C20: after any sequence of add_road_connection calls, calls that
\* overwrite an edge included, every edge u -> v has the edge v -> u with
\* the same road id and the same length.
C20_GraphSymmetry ==
    /\ Symmetric(adjacency)
    /\ harness.kind \in {"built", "searched"} => Symmetric(harness.adjacency)

\* a graph of two edges of different roads, both seen from the junction in
\* the middle
C20_TwoEdgesBothWays ==
    /\ harness.kind = "built"
    /\ \E u, v, w \in DOMAIN harness.adjacency :
          /\ u # w
          /\ v \in DOMAIN harness.adjacency[u]
          /\ v \in DOMAIN harness.adjacency[w]
          /\ harness.adjacency[v][u].road_id # harness.adjacency[v][w].road_id
          /\ harness.adjacency[v][u].length > 0

(***************************************************************************)
(* The load of the network description, checked under LoadSpec: process    *)
(* is called with track files of every kind, the ones that _load_map_data  *)
(* stops on included, and the file is replaced between calls while no map  *)
(* is loaded.                                                              *)
(***************************************************************************)
LoadTrackFiles ==
    {"missing", "corrupt", "tee", "twin", "spur"}
        \cup DOMAIN MultiJunctionTracks \cup DOMAIN MalformedTracks

LoadPositions == { <<0,0,0>>, <<50,0,0>>, <<100,60,0>>, <<25,200,0>>, <<0,-50,0>> }

\* files that take the place of the loaded one
LaterTrackFiles == {"missing", "tee"}

\* harness remembers whether a call found the file missing or unparsable
\* (failed), and whether the file was replaced after the map was loaded
\* ("replaced") and a tick has followed that ("ticked")
NoLoadHistory == [kind |-> "load", failed |-> FALSE, later |-> "none"]

LoadInit ==
    /\ InitNav
    /\ track_file \in LoadTrackFiles
    /\ harness = NoLoadHistory

\* the track file is written, replaced or removed after the map was loaded
ReplaceLoadedTrackFile(f) ==
    /\ map_loaded
    /\ track_file # f
    /\ track_file' = f
    /\ harness' = [harness EXCEPT !.later = IF @ = "none" THEN "replaced" ELSE @]
    /\ UNCHANGED <<enabled, sat_nav_enabled, map_loaded, roads_raw,
                   junctions_raw, adjacency, junction_locations,
                   destination_junction_idx, current_route_junctions,
                   current_route_roads, last_known_road_id, next_maneuver_emitted,
                   last>>

LoadNext ==
    \/ ProcessLoadFailed /\ harness' = [harness EXCEPT !.failed = TRUE]
    \/ ProcessLoadRaised /\ UNCHANGED harness
    \/ \E p \in LoadPositions :
          /\ ProcessTick(GameUnits(p))
          /\ harness' = [harness EXCEPT !.later = IF @ = "replaced" THEN "ticked" ELSE @]
    \/ \E f \in LoadTrackFiles : InstallTrackFile(f)
    \/ \E f \in LaterTrackFiles : ReplaceLoadedTrackFile(f)

LoadSpec == LoadInit /\ [][LoadNext]_vars

\* the map in memory was built by a load onto empty tables: no earlier
\* load stopped half way
LoadedAfresh == map_loaded /\ ~RaisedBefore

\* the road runs straight from (0,0,0) to (100,0,0)
StraightHundred(road) ==
    /\ road.path[1] = <<0,0,0>>
    /\ road.path[Len(road.path)] = <<100,0,0>>
    /\ \A i \in 1..Len(road.path) : road.path[i][2] = 0 /\ road.path[i][3] = 0
    /\ \A i \in 1..(Len(road.path) - 1) : road.path[i][1] < road.path[i + 1][1]

\* where junction j projects to on such a road
AlongStraight(j) == Max2(0, Min2(100, junctions_raw[j].location[1]))

Between(w, u, v) ==
    \/ AlongStraight(u) < AlongStraight(w) /\ AlongStraight(w) < AlongStraight(v)
    \/ AlongStraight(v) < AlongStraight(w) /\ AlongStraight(w) < AlongStraight(u)

Malformed(data) ==
    LET road_list == Get(data, "roads")
        junction_list == Get(data, "junctions")
    IN  \/ \E n \in 1..Len(road_list) : ~({"path", "road_id"} \subseteq DOMAIN road_list[n])
        \/ \E n \in 1..Len(junction_list) :
              \/ ~({"location", "connected_roads"} \subseteq DOMAIN junction_list[n])
              \/ \E k \in 1..Len(junction_list[n].connected_roads) :
                    \A m \in 1..Len(road_list) :
                        \/ "road_id" \notin DOMAIN road_list[m]
                        \/ road_list[m].road_id # junction_list[n].connected_roads[k]

\* this step is a call of process that runs the load on a malformed file
LoadsMalformed ==
    /\ IsEnabled
    /\ ~map_loaded
    /\ Readable(track_file)
    /\ Malformed(TrackData(track_file))
    /\ last' # last

\* C22: a call of process that loads a malformed description returns a
\* result that reports the service inactive; nothing is raised, map_loaded
\* stays false and the route state is not changed.
C22_MalformedLoadFails ==
    [][LoadsMalformed =>
          /\ last'.kind # "raised"
          /\ last'.result.sat_nav_active = FALSE
          /\ ~map_loaded'
          /\ UNCHANGED <<current_route_junctions, current_route_roads,
                         next_maneuver_emitted, last_known_road_id>>]_vars

\* a call of process ended in the KeyError of the load, which had stored
\* a road by then
C22_RaisedWithTablesHalfBuilt ==
    /\ last.kind = "raised"
    /\ ~map_loaded
    /\ roads_raw # <<>>

\* this step is a call of process by which the enabled system runs the load
LoadAttempt == IsEnabled /\ ~map_loaded /\ last' # last

RoadIds(roads) == {roads[n].road_id : n \in 1..Len(roads)}

\* C23: a tick that finds the description missing or unparsable returns a
\* result with sat_nav_active false, matches no road, emits nothing and
\* leaves the route state and map_loaded as they were; a tick that finds a
\* well-formed description, also after such failures, loads it and is
\* processed as a tick on the loaded map.
C23_LoadFailure ==
    [][LoadAttempt =>
          /\ ~Readable(track_file) =>
                /\ last'.kind = "load_failed"
                /\ last'.result.sat_nav_active = FALSE
                /\ last'.road_id = None /\ last'.dist = Inf
                /\ last'.events = NoEvents
                /\ ~map_loaded'
                /\ UNCHANGED <<current_route_junctions, current_route_roads,
                               next_maneuver_emitted, last_known_road_id,
                               roads_raw, junctions_raw, adjacency>>
          /\ Readable(track_file) /\ ~Malformed(TrackData(track_file)) =>
                /\ map_loaded'
                /\ last'.kind \in {"tick", "off_map"}
                /\ last'.result.sat_nav_active = TRUE
                /\ RoadIds(TrackData(track_file).roads) \subseteq RoadIds(roads_raw')
                /\ last'.road_id = GetClosestRoad(roads_raw', last'.pos).best_road]_vars

\* a tick found the file missing or unparsable, the file was put in place,
\* and the latest tick loaded it and matched a road
C23_LoadedAfterFailure ==
    /\ harness.failed
    /\ map_loaded
    /\ last.kind = "tick"
    /\ last.prev.route_unchanged
    /\ last.recalc = "completed"

\* C24: once the map is loaded no call runs the load again and nothing
\* changes the graph adjacency, the road table or the junction list, also
\* when the track file is replaced.
C24_LoadedOnce ==
    [][map_loaded =>
          UNCHANGED <<map_loaded, roads_raw, junctions_raw, adjacency,
                      junction_locations>>]_vars

\* the file was replaced after the load and a later tick, which recomputed
\* the route, works on the roads that were loaded
C24_TickAfterReplacement ==
    /\ map_loaded
    /\ harness.later = "ticked"
    /\ Readable(track_file)
    /\ RoadIds(TrackData(track_file).roads) \cap RoadIds(roads_raw) = {}
    /\ last.kind = "tick"
    /\ last.recalc = "completed"

\* C26: in the loaded graph every road that exactly two junctions list is
\* the road of the edge between the two, with the length of its polyline,
\* also when another road joins the same two junctions.
C26_TwoJunctionRoads ==
    map_loaded =>
        \A n \in 1..Len(roads_raw) :
            LET r == roads_raw[n].road_id
            IN  \A u, v \in Touching(r) :
                    u # v /\ Touching(r) = {u, v} =>
                        /\ HasEdge(adjacency, u, v)
                        /\ adjacency[u][v].road_id = r
                        /\ adjacency[u][v].length = PathLength(roads_raw[n].path)

\* roads 50 and 51 of the twin track both join junctions 0 and 1; the edge
\* between the two carries road 51
C26_TwinRoadOverwritten ==
    /\ LoadedAfresh
    /\ track_file = "twin"
    /\ Touching(50) = {0, 1}
    /\ Touching(51) = {0, 1}
    /\ adjacency[0][1] = [road_id |-> 51, length |-> 160]
    /\ adjacency[1][0] = [road_id |-> 51, length |-> 160]

\* the points of the segment ab with integer coordinates; the point of the
\* segment nearest to a position of the grid is one of them
PointsOn(a, b) ==
    LET ab == Sub(b, a)
        g == GCD(GCD(Abs(ab[1]), Abs(ab[2])), Abs(ab[3]))
    IN  IF g = 0 THEN {a}
        ELSE {<<a[1] + k * (ab[1] \div g), a[2] + k * (ab[2] \div g),
                a[3] + k * (ab[3] \div g)>> : k \in 0..g}

Least(set) == CHOOSE x \in set : \A y \in set : x <= y

\* the point nearest to loc of a segment ab that runs along an axis, as
\* the segments of the tracks do: loc with each coordinate brought into the
\* range of the segment
NearestOn(loc, a, b) ==
    [c \in 1..3 |-> Max2(Min2(a[c], b[c]), Min2(Max2(a[c], b[c]), loc[c]))]

\* how far along the path the point of the path nearest to loc lies, the
\* first such point if several are equally near
AlongPath(loc, path) ==
    LET cand == {<<DistanceSq(loc, NearestOn(loc, path[i], path[i + 1])),
                   PathLengthUpTo(path, i - 1)
                       + Distance(path[i], NearestOn(loc, path[i], path[i + 1]))>> :
                    i \in 1..(Len(path) - 1)}
        nearest == Least({x[1] : x \in cand})
    IN  Least({x[2] : x \in {y \in cand : y[1] = nearest}})

\* the pairs of junctions that an edge carrying road r joins
EdgesOf(r) ==
    UNION {{{u, v} : v \in {w \in DOMAIN adjacency[u] : adjacency[u][w].road_id = r}} :
              u \in DOMAIN adjacency}

\* C27: for a road that more than two junctions list, the edges carrying
\* its id join junctions of the road with no junction of the road between
\* them along the polyline, are weighted by the difference of the two
\* along-polyline distances, and are one fewer than the junctions.
C27_AdjacentOnly ==
    LoadedAfresh =>
        \A n \in 1..Len(roads_raw) :
            \A r \in {roads_raw[n].road_id} :
            \A on \in {Touching(r)} :
                Cardinality(on) > 2 =>
                    \A at \in {[j \in on |-> AlongPath(junctions_raw[j].location,
                                                        roads_raw[n].path)]} :
                        /\ \A u \in DOMAIN adjacency : \A v \in DOMAIN adjacency[u] :
                               adjacency[u][v].road_id = r =>
                                   /\ u \in on /\ v \in on /\ u # v
                                   /\ ~\E w \in on : (at[u] < at[w] /\ at[w] < at[v])
                                                         \/ (at[v] < at[w] /\ at[w] < at[u])
                                   /\ adjacency[u][v].length = Abs(at[u] - at[v])
                        /\ Cardinality(EdgesOf(r)) = Cardinality(on) - 1

\* the road with the turn: the file lists the junction beyond the corner
\* first, and the edge from the junction at 40 to it runs round the corner
C27_EdgeRoundTheCorner ==
    /\ LoadedAfresh
    /\ track_file = "bend_a"
    /\ Cardinality(Touching(40)) = 4
    /\ adjacency[3][0] = [road_id |-> 40, length |-> 120]
    /\ ~HasEdge(adjacency, 1, 0)

\* C28: no edge of the loaded graph carries the id of a road that exactly
\* one junction lists, and a tick that recomputes the route on such a road
\* leaves a road list made of that road followed by the roads of the path
\* from its junction.
C28_DeadEndRoads ==
    /\ map_loaded =>
          \A u \in DOMAIN adjacency : \A v \in DOMAIN adjacency[u] :
              Cardinality(Touching(adjacency[u][v].road_id)) # 1
    /\ Tick /\ last.recalc = "completed" /\ Cardinality(Touching(last.road_id)) = 1 =>
          /\ current_route_roads = <<last.road_id>> \o EdgeRoads(current_route_junctions)
          /\ current_route_junctions # <<>> =>
                Touching(last.road_id) = {current_route_junctions[1]}

\* a tick on the dead-end road 12 of the spur track recomputed the route
\* from junction 0 to junction 1 over road 10
C28_RouteFromDeadEnd ==
    /\ Tick
    /\ last.recalc = "completed"
    /\ Touching(last.road_id) = {0}
    /\ current_route_junctions = <<0, 1>>
    /\ current_route_roads = <<12, 10>>

(***************************************************************************)
(* The map matcher, checked under MatchSpec: _get_closest_road is called   *)
(* for positions of a grid on road tables of up to two roads, given in     *)
(* either order; harness holds the table, then the call and what it        *)
(* returned.                                                               *)
(***************************************************************************)
\* polylines: with a corner, level, diagonal, of a single point, with a
\* segment of length 0 followed by one along z, and without points
MatchPaths ==
    << << <<0,0,0>>, <<40,0,0>>, <<40,40,0>> >>,
       << <<0,20,0>>, <<40,20,0>> >>,
       << <<0,0,0>>, <<40,40,0>> >>,
       << <<20,20,0>> >>,
       << <<20,0,20>>, <<20,0,20>>, <<20,0,40>> >>,
       << >> >>

MatchRoad(n) == [road_id |-> n, path |-> MatchPaths[n]]

\* the road tables: empty, of one road, of two roads in either order
MatchTables ==
    {<<>>}
        \cup {StoreRoads(<<MatchRoad(a)>>, 1, <<>>) : a \in 1..Len(MatchPaths)}
        \cup {StoreRoads(<<MatchRoad(a), MatchRoad(b)>>, 1, <<>>) :
                 a, b \in 1..Len(MatchPaths)}

MatchGrid ==
    {<<x, y, z>> : x \in {-20, 0, 20, 40, 60}, y \in {-20, 0, 20, 40}, z \in {0, 20}}

MatchInit ==
    /\ InitNav
    /\ track_file = "missing"
    /\ harness \in {[kind |-> "table", roads |-> t] : t \in MatchTables}

\* self._get_closest_road(position) on the table of harness
MatchGetClosestRoad(position) ==
    /\ \E m \in {GetClosestRoad(harness.roads, position)} :
          harness' = [kind |-> "matched", roads |-> harness.roads, position |-> position,
                      best_road |-> m.best_road, min_dist |-> m.min_dist]
    /\ UNCHANGED <<enabled, sat_nav_enabled, track_file, map_loaded, roads_raw,
                   junctions_raw, adjacency, junction_locations,
                   destination_junction_idx, current_route_junctions,
                   current_route_roads, last_known_road_id, next_maneuver_emitted,
                   last>>

MatchNext == \E position \in MatchGrid : MatchGetClosestRoad(position)

MatchSpec == MatchInit /\ [][MatchNext]_vars

Matched == harness.kind = "matched"

\* the squared distances from p to the points of the segments of a path
SegmentDistances(p, path) ==
    {DistanceSq(p, q) : q \in UNION {PointsOn(path[i], path[i + 1]) :
                                        i \in 1..(Len(path) - 1)}}

AllDistances(p, roads) ==
    UNION {SegmentDistances(p, roads[n].path) : n \in 1..Len(roads)}

\* C25: on a table with at least one segment _get_closest_road returns the
\* least distance from the position to a segment of a road, and the id of
\* a road that has a segment at that distance; on an empty table it
\* returns no road and an infinite distance.
C25_ClosestRoad ==
    Matched =>
        LET all == AllDistances(harness.position, harness.roads)
        IN  /\ all # {} =>
                /\ harness.min_dist = <<Least(all), 1>>
                /\ \E n \in 1..Len(harness.roads) :
                      /\ harness.roads[n].road_id = harness.best_road
                      /\ Least(all) \in SegmentDistances(harness.position,
                                                          harness.roads[n].path)
            /\ harness.roads = <<>> =>
                /\ harness.best_road = None
                /\ harness.min_dist = Inf

\* the position lies beyond the end of the nearest segment, beside the
\* line through it, and a second road is farther away
C25_BeyondSegmentEnd ==
    /\ Matched
    /\ Len(harness.roads) = 2
    /\ harness.best_road = harness.roads[2].road_id
    /\ harness.position = <<60, 40, 0>>
    /\ harness.min_dist = <<800, 1>>

(***************************************************************************)
(* Maneuver derivation, checked under ManeuverSpec: _determine_maneuver is *)
(* called for a current and a next road that meet at a junction at the     *)
(* origin; harness holds the two polylines, then the vectors the call      *)
(* built and what it returned.                                            *)
(***************************************************************************)
\* a polyline of seven points that ends at the origin; the point k indices
\* before the end lies at a whole distance from it, in a direction of its
\* own
ApproachPath ==
    << <<-60,-80,0>>, <<-48,-14,0>>, <<-30,-40,0>>, <<-20,-15,0>>, <<0,-10,0>>,
       <<-5,0,0>>, <<0,0,0>> >>

Reversed(path) == [i \in 1..Len(path) |-> path[Len(path) + 1 - i]]

\* the last n points of the approach, ending or starting at the junction
ManeuverPaths ==
    UNION {{SubSeq(ApproachPath, Len(ApproachPath) + 1 - n, Len(ApproachPath)),
            Reversed(SubSeq(ApproachPath, Len(ApproachPath) + 1 - n, Len(ApproachPath)))} :
              n \in 1..Len(ApproachPath)}

\* the polyline turned about the junction: as it is, turned back, turned a
\* quarter to either side, mirrored, tipped out of the plane
Turned(path, way) ==
    [i \in 1..Len(path) |->
        LET p == path[i]
        IN  IF way = "back" THEN <<-p[1], -p[2], p[3]>>
            ELSE IF way = "quarter" THEN <<-p[2], p[1], p[3]>>
            ELSE IF way = "other_quarter" THEN <<p[2], -p[1], p[3]>>
            ELSE IF way = "mirrored" THEN <<-p[1], p[2], p[3]>>
            ELSE IF way = "tipped" THEN <<-p[1], p[3], p[2]>>
            ELSE p]

Ways == {"same", "back", "quarter", "other_quarter", "mirrored", "tipped"}

Origin == <<0, 0, 0>>

ManeuverInit ==
    /\ InitNav
    /\ track_file = "missing"
    /\ harness \in {[kind |-> "roads", r_curr |-> c, r_next |-> Turned(n, way)] :
                       c \in ManeuverPaths, n \in ManeuverPaths, way \in Ways}

\* self._determine_maneuver(1, 2, 0) with the two roads in roads_raw and
\* the junction in junctions_raw
ManeuverDetermine ==
    /\ harness.kind = "roads"
    /\ harness' =
          [kind |-> "maneuver", r_curr |-> harness.r_curr, r_next |-> harness.r_next,
           vec_in |-> IncomingVector(harness.r_curr, Origin),
           vec_out |-> OutgoingVector(harness.r_next, Origin),
           maneuver |->
               DetermineManeuver(
                   StoreRoads(<<[road_id |-> 1, path |-> harness.r_curr],
                                [road_id |-> 2, path |-> harness.r_next]>>, 1, <<>>),
                   JunctionsRaw(<<[location |-> Origin, connected_roads |-> <<1, 2>>]>>),
                   1, 2, 0)]
    /\ UNCHANGED <<enabled, sat_nav_enabled, track_file, map_loaded, roads_raw,
                   junctions_raw, adjacency, junction_locations,
                   destination_junction_idx, current_route_junctions,
                   current_route_roads, last_known_road_id, next_maneuver_emitted,
                   last>>

ManeuverNext == ManeuverDetermine

ManeuverSpec == ManeuverInit /\ [][ManeuverNext]_vars

Derived == harness.kind = "maneuver"

\* the length of a vector whose length is a whole number
Norm(v) == ISqrt(Dot(v, v))

\* the dot product of the two normalized vectors exceeds 0.8; normalize
\* turns a vector of length 0 into (0, 0, 0)
NormalizedDotAbove(vin, vout) ==
    /\ Norm(vin) > 0
    /\ Norm(vout) > 0
    /\ 5 * Dot(vin, vout) > 4 * Norm(vin) * Norm(vout)

\* the cross scalar in[0] * out[1] - in[1] * out[0] of the two normalized
\* vectors is positive
NormalizedCrossPositive(vin, vout) ==
    /\ Norm(vin) > 0
    /\ Norm(vout) > 0
    /\ vin[1] * vout[2] - vin[2] * vout[1] > 0

FarPoint(path, near_is_last) ==
    IF near_is_last THEN path[Len(path) - Min2(5, Len(path) - 1)]
    ELSE path[1 + Min2(5, Len(path) - 1)]

LastIsNearer(path) == DistanceSq(path[Len(path)], Origin) < DistanceSq(path[1], Origin)

\* C30: the incoming vector runs from the point min(5, len - 1) indices
\* away from the nearest end of the current road to that end, and the
\* outgoing vector from the nearest end of the next road to the point
\* min(5, len - 1) indices away from it, whichever end is the nearest.
C30_LookBack ==
    Derived =>
        /\ harness.vec_in =
              IF LastIsNearer(harness.r_curr)
              THEN Sub(harness.r_curr[Len(harness.r_curr)], FarPoint(harness.r_curr, TRUE))
              ELSE Sub(harness.r_curr[1], FarPoint(harness.r_curr, FALSE))
        /\ harness.vec_out =
              IF DistanceSq(harness.r_next[1], Origin)
                    < DistanceSq(harness.r_next[Len(harness.r_next)], Origin)
              THEN Sub(FarPoint(harness.r_next, FALSE), harness.r_next[1])
              ELSE Sub(FarPoint(harness.r_next, TRUE), harness.r_next[Len(harness.r_next)])

\* the current road has seven points and ends at the junction: the
\* incoming vector starts four points before the end, not five
C30_FourBeforeTheEnd ==
    /\ Derived
    /\ Len(harness.r_curr) = 7
    /\ harness.r_curr[7] = Origin
    /\ harness.vec_in = Sub(harness.r_curr[7], harness.r_curr[3])
    /\ harness.vec_in # Sub(harness.r_curr[7], harness.r_curr[2])

(***************************************************************************)
(* Claims about the route state over a run, checked under Spec             *)
(***************************************************************************)
\* no road of the table has a segment (a path of two points or more)
NoSegment(roads) == \A i \in 1..Len(roads) : Len(roads[i].path) < 2

\* the step is a call of process that reached the map matcher
MatcherStep == last' # last /\ last'.kind \in {"tick", "off_map"}

\* C31: a tick whose map matcher finds no road, no loaded road having a
\* segment, returns the 'Off Map' status, leaves current_route_roads,
\* current_route_junctions, next_maneuver_emitted and last_known_road_id
\* unchanged and emits no notification.
C31_NoRoadOffMap ==
    [][(MatcherStep /\ NoSegment(roads_raw')) =>
          /\ last'.result = Result(TRUE, "Off Map", None)
          /\ last'.events = <<>>
          /\ UNCHANGED <<current_route_roads, current_route_junctions,
                         next_maneuver_emitted, last_known_road_id>>]_vars

\* a tick on a loaded table whose only road is a single point
C31_TickWithoutSegment ==
    /\ map_loaded
    /\ roads_raw # <<>>
    /\ NoSegment(roads_raw)
    /\ last.kind = "off_map"
    /\ last.road_id = None
    /\ last.result.status = "Off Map"

\* C32: whenever current_route_junctions is non-empty its last element is
\* the destination junction and each consecutive pair of its junctions is
\* joined by an edge of the graph, after recomputations and after leg
\* advancements alike.
C32_JunctionsLeadToDestination ==
    current_route_junctions # <<>> =>
        /\ current_route_junctions[Len(current_route_junctions)] = destination_junction_idx
        /\ IsPath(adjacency, current_route_junctions)

\* a route across two edges, after the tick that popped its first road
C32_PathKeptAfterAdvance ==
    /\ Tick
    /\ last.popped > 0
    /\ Len(current_route_junctions) >= 3
    /\ current_route_junctions = last.before.junctions

\* C33: once current_route_roads is non-empty no step empties it: neither
\* a leg advancement nor a recomputation, completed or aborted.
C33_RoadsStayNonEmpty ==
    [][current_route_roads # <<>> => current_route_roads' # <<>>]_vars

\* a leg advancement that popped every road before the matched one, the
\* last of the route
C33_PoppedDownToMatchedRoad ==
    /\ Tick
    /\ last.popped > 0
    /\ last.popped = Len(last.before.roads) - 1
    /\ current_route_roads = <<last.road_id>>

\* C34: a step changes current_route_junctions only if it is a tick whose
\* recomputation completed (a leg advancement, an off-map tick and an
\* aborted recomputation leave the list alone), and a recomputation that
\* aborts because no junction lists the matched road also leaves
\* current_route_roads and next_maneuver_emitted as they were.
C34_JunctionsFrame ==
    [][/\ current_route_junctions' # current_route_junctions =>
             last'.kind = "tick" /\ last'.recalc = "completed"
       /\ (MatcherStep /\ last'.recalc = "aborted") =>
             /\ UNCHANGED <<current_route_junctions, current_route_roads>>
             /\ last'.route_emitted = next_maneuver_emitted]_vars

\* a recomputation aborted on a road that no junction lists, with a route
\* in place whose first road had been popped before
C34_AbortWithRouteInPlace ==
    /\ Tick
    /\ last.recalc = "aborted"
    /\ Touching(last.road_id) = {}
    /\ current_route_roads # <<>>
    /\ Len(current_route_junctions) > Len(current_route_roads) + 1

\* C35: at the end of a tick with the matched road first in
\* current_route_roads and a second road after it, some junction of
\* current_route_junctions lists both roads among its connected roads.
C35_ConnectingJunctionOnRoute ==
    (Tick /\ OnRouteWithNext) =>
        \E i \in 1..Len(current_route_junctions) :
            current_route_junctions[i]
                \in Touching(current_route_roads[1]) \cap Touching(current_route_roads[2])

\* two roads left after a leg advancement, the junctions passed still in
\* the list, and the matched road put in front by the recomputation
C35_NextRoadAfterAdvance ==
    /\ Tick
    /\ OnRouteWithNext
    /\ last.popped > 0
    /\ Len(current_route_junctions) = Len(current_route_roads) + 1
    /\ current_route_roads[1] # current_route_roads[2]

(***************************************************************************)
(* Claims about the route on loaded networks of every kind, checked under  *)
(* LoadSpec                                                                *)
(***************************************************************************)
\* C36: current_route_roads never holds a road id twice, also when the
\* route runs along a road that touches more than two junctions.
C36_NoRoadTwice == NoRepeat(current_route_roads)

\* a route over a road that more than two junctions list
C36_RouteAlongMultiJunctionRoad ==
    /\ Tick
    /\ last.recalc = "completed"
    /\ Len(current_route_junctions) >= 3
    /\ \E i \in 1..Len(current_route_roads) :
          Cardinality(Touching(current_route_roads[i])) > 2

(***************************************************************************)
(* The work of a search, checked under GraphSpec                           *)
(***************************************************************************)
\* the number of edges of the graph, each direction counted
DirectedEdges(adj) ==
    Cardinality(UNION {{<<u, v>> : v \in DOMAIN adj[u]} : u \in DOMAIN adj})

\* C37: every search returns, for a destination that can be reached and
\* for one that cannot, after at most one pass of the loop for the start
\* entry and one for each edge direction, and relaxes the neighbours of no
\* junction twice.
C37_SearchTerminates ==
    Searched =>
        /\ NoRepeat(harness.expanded)
        /\ harness.iteration <= 1 + DirectedEdges(harness.adjacency)

\* a search for a destination that cannot be reached, which expanded
\* every junction and passed over a queue entry of a junction already
\* visited
C37_StaleEntrySkipped ==
    /\ Searched
    /\ harness.path = <<>>
    /\ Len(harness.expanded) = NumJunctions
    /\ harness.iteration > Len(harness.expanded)

(***************************************************************************)
(* Roads at the same distance, checked under MatchSpec                     *)
(***************************************************************************)
\* the roads of the table, by position, that have a segment at the distance
\* the call returned
AtMinimum ==
    {n \in 1..Len(harness.roads) :
        GetClosestRoad(<<harness.roads[n]>>, harness.position).min_dist = harness.min_dist}

\* C38: when several roads of the table are at the least distance from the
\* position, _get_closest_road returns the one that comes first in the
\* table, the order in which the roads were loaded.
C38_FirstRoadWinsTie ==
    (Matched /\ harness.best_road # None) =>
        \E n \in AtMinimum :
            /\ \A k \in AtMinimum : n <= k
            /\ harness.best_road = harness.roads[n].road_id

\* a position where the polylines of both roads of the table meet
C38_TwoRoadsMeet ==
    /\ Matched
    /\ Cardinality(AtMinimum) = 2
    /\ harness.min_dist = <<0, 1>>
    /\ harness.best_road = harness.roads[1].road_id
    /\ harness.roads[1].road_id > harness.roads[2].road_id

(***************************************************************************)
(* The disabled system, checked under Spec                                 *)
(***************************************************************************)
\* C39: while the enabled flag or the sat_nav_enabled setting is false, no
\* step loads the map or changes the tables, the route lists, the matched
\* road or the flag, and a call of process returns the inactive result
\* without a map match and without a notification; the route state is
\* therefore as it was when the system is enabled again.
C39_DisabledTick ==
    [][~(enabled /\ sat_nav_enabled) =>
          /\ UNCHANGED <<map_loaded, roads_raw, junctions_raw, adjacency,
                         junction_locations, current_route_junctions,
                         current_route_roads, last_known_road_id,
                         next_maneuver_emitted>>
          /\ last' # last =>
                /\ last'.kind = "disabled"
                /\ last'.result = Result(FALSE, NoStatus, None)
                /\ last'.events = <<>>
                /\ last'.road_id = None
                /\ last'.before = RouteNow]_vars

\* the system enabled again after a call of process that found it
\* disabled, with the route of two roads and the raised flag it had
C39_EnabledAgainWithRoute ==
    /\ last.kind = "disabled"
    /\ enabled /\ sat_nav_enabled
    /\ map_loaded
    /\ Len(current_route_roads) >= 2
    /\ next_maneuver_emitted
    /\ last.before = RouteNow

====
